---------------------------- MODULE Spec2Model ----------------------------
(***************************************************************************)
(* Model of the agent examples of lessons/module_5: the ReAct control loop *)
(* (react_agent.py), its research variant (research_agent.py), the         *)
(* function-calling loop (simple_agent.py), their tool registries, the     *)
(* textual action parser and the calculator tool.                          *)
(*                                                                         *)
(* A Python str is a TLA+ string; its character at index i is the         *)
(* one-character string At(s, i).  The Cyrillic literals of the source are *)
(* written in Latin transliteration, and a text that only the environment  *)
(* decides (a Wikipedia extract, the clock) by a placeholder in <...>.     *)
(***************************************************************************)
EXTENDS Integers, Sequences, FiniteSets, TLC

VARIABLES
    agent,          \* which loop runs: "react" (ReActAgent), "research" (ResearchAgent), "simple" (SimpleAgent)
    tools,          \* ToolKit.tools: the registered Tool records, in insertion order
    max_iterations, \* self.max_iterations
    task,           \* the argument of run() / research() / SimpleAgent.run()
    pc,             \* position of run(): "idle", "loop", "returned", "raised"
    iteration,      \* the loop variable of run(); 0 before the first iteration
    messages,       \* the transcript sent to the model
    actions_log,    \* the list returned as "actions"
    research_log,   \* ResearchAgent.research_log
    result,         \* what run() returned, NoResult until then
    error,          \* the exception that left run(), "" while none
    llm_calls,      \* number of model calls issued by this run
    responses,      \* what the model calls of this run returned, in order
    dispatches,     \* the toolkit.execute calls of this run, in order
    handler_calls,  \* the handler (Tool.func) invocations of this run, in order
    max_tool_calls, \* the argument max_tool_calls of SimpleAgent.run()
    tool_calls_count, \* the counter of SimpleAgent.run()
    runs,           \* number of run() / research() invocations on the agent
    threads,        \* the local state of research() invocations that run
                    \* concurrently on one agent, by thread
    registrations,  \* the Tool objects given to ToolKit.register, in order
    http_requests,  \* the requests.get calls of one wikipedia_search call, in order
    call_stack      \* the frames of wikipedia_search and of its fallback, outermost first

vars == <<agent, tools, max_iterations, task, pc, iteration, messages,
          actions_log, research_log, result, error, llm_calls, responses,
          dispatches, handler_calls, max_tool_calls, tool_calls_count, runs,
          threads, registrations,
                   http_requests, call_stack>>

-----------------------------------------------------------------------------
(* Characters and strings                                                  *)

Digits == {"0", "1", "2", "3", "4", "5", "6", "7", "8", "9"}

Letters ==
    {"a", "b", "c", "d", "e", "f", "g", "h", "i", "j", "k", "l", "m",
     "n", "o", "p", "q", "r", "s", "t", "u", "v", "w", "x", "y", "z",
     "A", "B", "C", "D", "E", "F", "G", "H", "I", "J", "K", "L", "M",
     "N", "O", "P", "Q", "R", "S", "T", "U", "V", "W", "X", "Y", "Z"}

\* s[i - 1] of Python: the character at index i, counted from 1
At(s, i) == SubSeq(s, i, i)

\* \w of the re module
IsWord(c) == c \in Letters \cup Digits \cup {"_"}

\* \s of the re module, and the characters str.strip() removes
IsSpace(c) == c \in {" ", "\n", "\t"}

\* ["\']
IsQuote(c) == c \in {"\"", "'"}

\* first index j >= i with s[j] not a \s character (Len(s) + 1 at the end)
RECURSIVE SkipSpaces(_, _)
SkipSpaces(s, i) ==
    IF i <= Len(s) /\ IsSpace(At(s, i)) THEN SkipSpaces(s, i + 1) ELSE i

\* first index j >= i with s[j] not a \w character
RECURSIVE SkipWord(_, _)
SkipWord(s, i) ==
    IF i <= Len(s) /\ IsWord(At(s, i)) THEN SkipWord(s, i + 1) ELSE i

\* first index j >= i with s[j] a quote character (Len(s) + 1 when none)
RECURSIVE SkipNonQuote(_, _)
SkipNonQuote(s, i) ==
    IF i <= Len(s) /\ ~IsQuote(At(s, i)) THEN SkipNonQuote(s, i + 1) ELSE i

\* the literal lit occurs in s at index i
LitAt(s, i, lit) ==
    /\ i >= 1
    /\ i + Len(lit) - 1 <= Len(s)
    /\ SubSeq(s, i, i + Len(lit) - 1) = lit

\* lit in s
Contains(s, lit) == \E i \in 1..Len(s) : LitAt(s, i, lit)

\* str.strip(): leading and trailing whitespace removed
RECURSIVE StripSpace(_)
StripSpace(s) ==
    IF s = "" THEN s
    ELSE IF IsSpace(At(s, 1)) THEN StripSpace(Tail(s))
    ELSE IF IsSpace(At(s, Len(s))) THEN StripSpace(SubSeq(s, 1, Len(s) - 1))
    ELSE s

\* str.strip('"\''): leading and trailing quote characters removed
RECURSIVE StripQuotes(_)
StripQuotes(s) ==
    IF s = "" THEN s
    ELSE IF IsQuote(At(s, 1)) THEN StripQuotes(Tail(s))
    ELSE IF IsQuote(At(s, Len(s))) THEN StripQuotes(SubSeq(s, 1, Len(s) - 1))
    ELSE s

\* ", ".join(parts)
RECURSIVE Join(_, _)
Join(parts, sep) ==
    IF parts = <<>> THEN ""
    ELSE IF Len(parts) = 1 THEN parts[1]
    ELSE parts[1] \o sep \o Join(Tail(parts), sep)

\* s[:n]
Truncate(s, n) == SubSeq(s, 1, IF Len(s) < n THEN Len(s) ELSE n)

ACTION_MARK == "ACTION:"
ANSWER_MARK == "ANSWER:"

-----------------------------------------------------------------------------
(* Action parser: _parse_action and _extract_answer                        *)

None == [none |-> TRUE]

\* ACTION:\s*(\w+)\s*\(   matched at index i: the tool name and the index
\* that follows the open parenthesis
PatternHead(s, i) ==
    IF ~LitAt(s, i, ACTION_MARK) THEN None
    ELSE LET a == SkipSpaces(s, i + Len(ACTION_MARK))
             b == SkipWord(s, a)
             c == SkipSpaces(s, b)
         IN  IF b > a /\ c <= Len(s) /\ At(s, c) = "("
             THEN [none |-> FALSE, tool |-> SubSeq(s, a, b - 1), next |-> c + 1]
             ELSE None

\* the candidate positions of a set, as the largest / smallest member
MaxOf(S) == CHOOSE x \in S : \A y \in S : y <= x
MinOf(S) == CHOOSE x \in S : \A y \in S : x <= y

\* ["\']([^"\']*)["\']?\s*\) after the head h, the opening quote at index q.
\* Group 2 is greedy: the whole run of non-quote characters when a quote and
\* \s*\) follow it, and otherwise the run up to its last close parenthesis.
QuotedTail(s, h, q) ==
    IF ~(q <= Len(s) /\ IsQuote(At(s, q))) THEN None
    ELSE LET a == q + 1
             e == SkipNonQuote(s, a)
             z == SkipSpaces(s, e + 1)
             closes == {j \in a..(e - 1) : At(s, j) = ")"}
         IN  IF e <= Len(s) /\ z <= Len(s) /\ At(s, z) = ")"
             THEN [none |-> FALSE, tool |-> h.tool, group2 |-> SubSeq(s, a, e - 1)]
             ELSE IF closes # {}
             THEN [none |-> FALSE, tool |-> h.tool,
                   group2 |-> SubSeq(s, a, MaxOf(closes) - 1)]
             ELSE None

\* the rest of the quoted pattern after the head h
QuotedFrom(s, h) ==
    IF h.none THEN None ELSE QuotedTail(s, h, SkipSpaces(s, h.next))

\* r'ACTION:\s*(\w+)\s*\(\s*["\']([^"\']*)["\']?\s*\)' matched at index i
QuotedAt(s, i) == QuotedFrom(s, PatternHead(s, i))

\* (.+?)\s*\) started at index b: the shortest non-empty run without a line
\* break that \s*\) follows; 0 when there is none
LazyEnd(s, b) ==
    LET ends == {m \in b..Len(s) :
                    /\ \A j \in b..m : At(s, j) # "\n"
                    /\ LET z == SkipSpaces(s, m + 1)
                       IN  z <= Len(s) /\ At(s, z) = ")"}
    IN  IF ends = {} THEN 0 ELSE MinOf(ends)

\* the bare match whose group 2 is s[b..e]
BareMatch(s, h, b, e) == [none |-> FALSE, tool |-> h.tool, group2 |-> SubSeq(s, b, e)]

\* \s*(.+?)\s*\) after the head h.  \s* is greedy and gives characters back
\* one at a time: group 2 starts at the largest index that lets the rest match.
BareFrom(s, h) ==
    IF h.none THEN None
    ELSE LET ends == [b \in h.next..SkipSpaces(s, h.next) |-> LazyEnd(s, b)]
             starts == {b \in DOMAIN ends : ends[b] # 0}
         IN  IF starts = {} THEN None
             ELSE BareMatch(s, h, MaxOf(starts), ends[MaxOf(starts)])

\* r'ACTION:\s*(\w+)\s*\(\s*(.+?)\s*\)' matched at index i
BareAt(s, i) == BareFrom(s, PatternHead(s, i))

\* re.search: of the matches at each index, the one at the leftmost index
\* that has one
Leftmost(at) ==
    LET hits == {i \in DOMAIN at : ~at[i].none}
    IN  IF hits = {} THEN None ELSE at[MinOf(hits)]

SearchQuoted(s) == Leftmost([i \in 1..Len(s) |-> QuotedAt(s, i)])

SearchBare(s) == Leftmost([i \in 1..Len(s) |-> BareAt(s, i)])

\* the patterns tried in the other order: the bare one first
FirstMatch_bare_first(m1, m2) == IF ~m2.none THEN m2 ELSE m1

\* for pattern in patterns: the first pattern that matches
FirstMatch(m1, m2) == IF ~m1.none THEN m1 ELSE m2

\* {"tool": match.group(1), "arg": match.group(2).strip('"\'')}
ActionOf(m) ==
    IF m.none THEN None
    ELSE [none |-> FALSE, tool |-> m.tool, arg |-> StripQuotes(m.group2)]

\* _parse_action: the quoted pattern first, then the bare one
parse_action(response) ==
    ActionOf(FirstMatch(SearchQuoted(response), SearchBare(response)))

\* _extract_answer without .strip()
extract_answer_unstripped(response) ==
    IF ~Contains(response, ANSWER_MARK) THEN None
    ELSE LET last == MaxOf({i \in 1..Len(response) : LitAt(response, i, ANSWER_MARK)})
         IN  [none |-> FALSE,
              value |-> SubSeq(response, last + Len(ANSWER_MARK), Len(response))]

\* _extract_answer that takes what follows the first marker: split(...)[1]
extract_answer_first(response) ==
    IF ~Contains(response, ANSWER_MARK) THEN None
    ELSE LET first == MinOf({i \in 1..Len(response) : LitAt(response, i, ANSWER_MARK)})
             rest == SubSeq(response, first + Len(ANSWER_MARK), Len(response))
             next == IF Contains(rest, ANSWER_MARK)
                     THEN MinOf({i \in 1..Len(rest) : LitAt(rest, i, ANSWER_MARK)})
                     ELSE Len(rest) + 1
         IN  [none |-> FALSE, value |-> StripSpace(SubSeq(rest, 1, next - 1))]

\* _extract_answer: response.split("ANSWER:")[-1].strip(), None without marker
extract_answer(response) ==
    IF ~Contains(response, ANSWER_MARK) THEN None
    ELSE LET last == MaxOf({i \in 1..Len(response) : LitAt(response, i, ANSWER_MARK)})
         IN  [none |-> FALSE,
              value |-> StripSpace(SubSeq(response, last + Len(ANSWER_MARK),
                                          Len(response)))]

-----------------------------------------------------------------------------
(* ast.parse(expression, mode='eval') on the arithmetic part of the        *)
(* expression grammar.  The characters understood are digits, letters,     *)
(* "_", "+", "-", "*", "/", "%", "(", ")", ",", the blank and the tab; an  *)
(* identifier is read as a Name (keywords are not told apart), and a       *)
(* character outside this alphabet, or a letter glued to a number, is      *)
(* reported as a syntax error.                                             *)

DigitVal(c) ==
    CASE c = "0" -> 0 [] c = "1" -> 1 [] c = "2" -> 2 [] c = "3" -> 3
      [] c = "4" -> 4 [] c = "5" -> 5 [] c = "6" -> 6 [] c = "7" -> 7
      [] c = "8" -> 8 [] c = "9" -> 9

IsBlank(c) == c \in {" ", "\t"}

\* end of the decimal literal that starts at i: digit ("_"? digit)*
RECURSIVE NumberEnd(_, _)
NumberEnd(s, i) ==
    IF i + 1 <= Len(s) /\ At(s, i + 1) \in Digits THEN NumberEnd(s, i + 1)
    ELSE IF i + 2 <= Len(s) /\ At(s, i + 1) = "_" /\ At(s, i + 2) \in Digits
    THEN NumberEnd(s, i + 2)
    ELSE i

\* value of the decimal literal d, its underscores skipped
RECURSIVE NumberValue(_, _)
NumberValue(d, acc) ==
    IF d = "" THEN acc
    ELSE IF At(d, 1) = "_" THEN NumberValue(Tail(d), acc)
    ELSE NumberValue(Tail(d), 10 * acc + DigitVal(At(d, 1)))

BadToken == [t |-> "bad"]

\* index of the quote q that closes the string literal opened before i, 0
\* when the line ends first
RECURSIVE ClosingQuote(_, _, _)
ClosingQuote(s, i, q) ==
    IF i > Len(s) \/ At(s, i) = "\n" THEN 0
    ELSE IF At(s, i) = q THEN i
    ELSE ClosingQuote(s, i + 1, q)

\* the string literal that starts with the quote at i; of the literals only
\* those without escapes and without % are read
StringAt(s, i) ==
    LET e == ClosingQuote(s, i + 1, At(s, i))
        body == SubSeq(s, i + 1, e - 1)
    IN  IF e = 0 \/ Contains(body, "\\") \/ Contains(body, "%")
           \/ (i > 1 /\ IsWord(At(s, i - 1)))
        THEN [tok |-> BadToken, next |-> Len(s) + 1]
        ELSE [tok |-> [t |-> "str", s |-> body], next |-> e + 1]

\* the token that starts at index i (not a blank) and the index after it
TokenAt(s, i) ==
    LET c == At(s, i)
        two == IF i + 1 <= Len(s) THEN SubSeq(s, i, i + 1) ELSE c
    IN  IF c \in Digits THEN
            LET e == NumberEnd(s, i)
                d == SubSeq(s, i, e)
                v == NumberValue(d, 0)
                glued == e + 1 <= Len(s) /\ IsWord(At(s, e + 1))
                leading0 == c = "0" /\ v # 0
            IN  IF glued \/ leading0
                THEN [tok |-> BadToken, next |-> e + 1]
                ELSE [tok |-> [t |-> "num", n |-> v], next |-> e + 1]
        ELSE IF IsWord(c) THEN
            LET e == SkipWord(s, i)
            IN  [tok |-> [t |-> "name", id |-> SubSeq(s, i, e - 1)], next |-> e]
        ELSE IF IsQuote(c) THEN StringAt(s, i)
        ELSE IF two = "**" THEN [tok |-> [t |-> "op", s |-> "**"], next |-> i + 2]
        ELSE IF two = "//" THEN [tok |-> [t |-> "op", s |-> "//"], next |-> i + 2]
        ELSE IF c \in {"+", "-", "*", "/", "%", "(", ")", ","}
        THEN [tok |-> [t |-> "op", s |-> c], next |-> i + 1]
        ELSE [tok |-> BadToken, next |-> i + 1]

\* the tokens of s from index i on
RECURSIVE Tokenize(_, _)
Tokenize(s, i) ==
    IF i > Len(s) THEN <<>>
    ELSE IF IsBlank(At(s, i)) THEN Tokenize(s, i + 1)
    ELSE LET r == TokenAt(s, i) IN <<r.tok>> \o Tokenize(s, r.next)

IsOp(ts, p, sym) == p <= Len(ts) /\ ts[p].t = "op" /\ ts[p].s = sym

Fail == [ok |-> FALSE]
Node(n, p) == [ok |-> TRUE, node |-> n, pos |-> p]

\* the values of the literals that are no numerals: a text, and None.  True
\* and False are the ints 1 and 0: bool is a subclass of int, and of a value
\* the calculators show only what float() makes of it.
Text(s) == [k |-> "str", s |-> s]
NoneValue == [k |-> "none"]

\* the names that are literals
LiteralNames == {"True", "False", "None"}

\* ast.Constant for a literal name
NameConstant(id) ==
    [type |-> "Constant",
     value |-> IF id = "None" THEN NoneValue
               ELSE [k |-> "int", n |-> IF id = "True" THEN 1 ELSE 0]]

\* ast.Constant for the string literals from token p on: adjacent literals
\* are one string
RECURSIVE StringConstant(_, _, _)
StringConstant(ts, p, acc) ==
    IF p <= Len(ts) /\ ts[p].t = "str"
    THEN StringConstant(ts, p + 1, acc \o ts[p].s)
    ELSE Node([type |-> "Constant", value |-> Text(acc)], p)

BinOpName(sym) ==
    CASE sym = "+" -> "Add" [] sym = "-" -> "Sub" [] sym = "*" -> "Mult"
      [] sym = "/" -> "Div" [] sym = "//" -> "FloorDiv" [] sym = "%" -> "Mod"
      [] sym = "**" -> "Pow"

\* The expression grammar, one rule per case.  p is the index of the next
\* token; acc is what the rule has read so far (the left operand, the
\* callee, the arguments or the elements) and nkw the number of **arguments.
RECURSIVE Parse(_, _, _, _, _)
Parse(rule, ts, p, acc, nkw) ==
    CASE rule = "sum" ->
        \* sum: term (('+' | '-') term)*
        LET l == Parse("term", ts, p, <<>>, 0)
        IN  IF l.ok THEN Parse("sum_rest", ts, l.pos, l.node, 0) ELSE Fail
      [] rule = "sum_rest" ->
        IF IsOp(ts, p, "+") \/ IsOp(ts, p, "-") THEN
            LET r == Parse("term", ts, p + 1, <<>>, 0)
            IN  IF r.ok
                THEN Parse("sum_rest", ts, r.pos,
                           [type |-> "BinOp", op |-> BinOpName(ts[p].s),
                            left |-> acc, right |-> r.node], 0)
                ELSE Fail
        ELSE Node(acc, p)
      [] rule = "term" ->
        \* term: factor (('*' | '/' | '//' | '%') factor)*
        LET l == Parse("factor", ts, p, <<>>, 0)
        IN  IF l.ok THEN Parse("term_rest", ts, l.pos, l.node, 0) ELSE Fail
      [] rule = "term_rest" ->
        IF IsOp(ts, p, "*") \/ IsOp(ts, p, "/") \/ IsOp(ts, p, "//")
           \/ IsOp(ts, p, "%") THEN
            LET r == Parse("factor", ts, p + 1, <<>>, 0)
            IN  IF r.ok
                THEN Parse("term_rest", ts, r.pos,
                           [type |-> "BinOp", op |-> BinOpName(ts[p].s),
                            left |-> acc, right |-> r.node], 0)
                ELSE Fail
        ELSE Node(acc, p)
      [] rule = "factor" ->
        \* factor: ('+' | '-') factor | power
        IF IsOp(ts, p, "+") \/ IsOp(ts, p, "-") THEN
            LET r == Parse("factor", ts, p + 1, <<>>, 0)
            IN  IF r.ok
                THEN Node([type |-> "UnaryOp",
                           op |-> IF ts[p].s = "-" THEN "USub" ELSE "UAdd",
                           operand |-> r.node], r.pos)
                ELSE Fail
        ELSE
            \* power: primary ['**' factor]
            LET b == Parse("primary", ts, p, <<>>, 0)
            IN  IF ~b.ok THEN Fail
                ELSE IF IsOp(ts, b.pos, "**") THEN
                    LET r == Parse("factor", ts, b.pos + 1, <<>>, 0)
                    IN  IF r.ok
                        THEN Node([type |-> "BinOp", op |-> "Pow",
                                   left |-> b.node, right |-> r.node], r.pos)
                        ELSE Fail
                ELSE b
      [] rule = "primary" ->
        \* primary: atom ('(' arguments ')')*
        \* atom: NAME | 'True' | 'False' | 'None' | STRING+ | NUMBER | '(' ... ')'
        LET a == IF p > Len(ts) THEN Fail
                 ELSE IF ts[p].t = "num"
                 THEN Node([type |-> "Num", n |-> ts[p].n], p + 1)
                 ELSE IF ts[p].t = "str" THEN StringConstant(ts, p, "")
                 ELSE IF ts[p].t = "name" /\ ts[p].id \in LiteralNames
                 THEN Node(NameConstant(ts[p].id), p + 1)
                 ELSE IF ts[p].t = "name"
                 THEN Node([type |-> "Name", id |-> ts[p].id], p + 1)
                 ELSE IF IsOp(ts, p, "(") THEN Parse("elts", ts, p + 1, <<>>, 0)
                 ELSE Fail
        IN  IF a.ok THEN Parse("trailers", ts, a.pos, a.node, 0) ELSE Fail
      [] rule = "trailers" ->
        IF IsOp(ts, p, "(") THEN
            LET r == Parse("args", ts, p + 1, <<>>, 0)
            IN  IF r.ok
                THEN Parse("trailers", ts, r.pos,
                           [type |-> "Call", func |-> acc, args |-> r.node.args,
                            keywords |-> r.node.keywords], 0)
                ELSE Fail
        ELSE Node(acc, p)
      [] rule = "args" ->
        \* arguments up to the close parenthesis: expressions and
        \* *expressions, then **expressions; a trailing comma is allowed.
        \* p follows '(' or a ','.
        IF IsOp(ts, p, ")") THEN Node([args |-> acc, keywords |-> nkw], p + 1)
        ELSE LET star == IsOp(ts, p, "*")
                 dstar == IsOp(ts, p, "**")
                 e == Parse("sum", ts, IF star \/ dstar THEN p + 1 ELSE p, <<>>, 0)
             IN  IF ~e.ok \/ (nkw > 0 /\ ~dstar) THEN Fail
                 ELSE LET a2 == IF dstar THEN acc
                                ELSE IF star
                                THEN Append(acc, [type |-> "Starred",
                                                  value |-> e.node])
                                ELSE Append(acc, e.node)
                          k2 == IF dstar THEN nkw + 1 ELSE nkw
                      IN  IF IsOp(ts, e.pos, ")")
                          THEN Node([args |-> a2, keywords |-> k2], e.pos + 1)
                          ELSE IF IsOp(ts, e.pos, ",")
                          THEN Parse("args", ts, e.pos + 1, a2, k2)
                          ELSE Fail
      [] rule = "elts" ->
        \* the inside of a parenthesis: a group (one expression) or a tuple.
        \* p follows '(' or a ','; acc holds the elements read so far.
        IF IsOp(ts, p, ")") THEN
            \* "()" or a trailing comma: a tuple
            Node([type |-> "Tuple", elts |-> acc], p + 1)
        ELSE LET star == IsOp(ts, p, "*")
                 e == Parse("sum", ts, IF star THEN p + 1 ELSE p, <<>>, 0)
             IN  IF ~e.ok THEN Fail
                 ELSE LET el == IF star THEN [type |-> "Starred", value |-> e.node]
                                ELSE e.node
                      IN  IF IsOp(ts, e.pos, ")") THEN
                              IF acc = <<>>
                              THEN IF star THEN Fail ELSE Node(el, e.pos + 1)
                              ELSE Node([type |-> "Tuple",
                                         elts |-> Append(acc, el)], e.pos + 1)
                          ELSE IF IsOp(ts, e.pos, ",")
                          THEN Parse("elts", ts, e.pos + 1, Append(acc, el), 0)
                          ELSE Fail

\* an expression that starts at token p
ParseSum(ts, p) == Parse("sum", ts, p, <<>>, 0)

\* the top level of eval mode: expression (',' expression)* [','], no stars
RECURSIVE ParseTop(_, _, _)
ParseTop(ts, p, elts) ==
    LET e == ParseSum(ts, p)
    IN  IF ~e.ok THEN Fail
        ELSE IF e.pos > Len(ts) THEN
            IF elts = <<>> THEN Node(e.node, e.pos)
            ELSE Node([type |-> "Tuple", elts |-> Append(elts, e.node)], e.pos)
        ELSE IF IsOp(ts, e.pos, ",") THEN
            IF e.pos = Len(ts)
            THEN Node([type |-> "Tuple", elts |-> Append(elts, e.node)], e.pos + 1)
            ELSE ParseTop(ts, e.pos + 1, Append(elts, e.node))
        ELSE Fail

\* ast.parse(expression, mode='eval').body, or Fail for a SyntaxError
\* (an expression that starts with a blank is an IndentationError)
AstParse(expression) ==
    IF expression = "" \/ IsBlank(At(expression, 1)) THEN Fail
    ELSE LET ts == Tokenize(expression, 1)
         IN  IF \E k \in 1..Len(ts) : ts[k].t = "bad" THEN Fail
             ELSE ParseTop(ts, 1, <<>>)

-----------------------------------------------------------------------------
(* Numbers.  A Python int is [k |-> "int", n]; a float is kept exactly, as *)
(* the fraction num/den with den a power of two (binary floating point is  *)
(* exact on these), [k |-> "float", num, den].  A number the model does    *)
(* not compute (pi, e, a float that is no such fraction, a value beyond    *)
(* IntLimit, a float zero that may carry a minus sign) is                  *)
(* [k |-> "opaque", id]: it is a number, and its digits are not modelled.  *)
(* id is "int" for an int beyond IntLimit, "pi", "e", or "?" for any other *)
(* float.                                                                  *)

IntLimit == 30000
DenLimit == 64

Abs(n) == IF n < 0 THEN -n ELSE n

RECURSIVE Gcd(_, _)
Gcd(a, b) == IF b = 0 THEN a ELSE Gcd(b, a % b)

RECURSIVE IsPow2(_)
IsPow2(d) == d = 1 \/ (d > 1 /\ d % 2 = 0 /\ IsPow2(d \div 2))

Opaque(id) == [k |-> "opaque", id |-> id]

MkInt(n) == IF Abs(n) <= IntLimit THEN [k |-> "int", n |-> n] ELSE Opaque("int")

\* the value is a Python int
IsInt(v) == v.k = "int" \/ (v.k = "opaque" /\ v.id = "int")

\* the result of arithmetic on a number the model does not compute
OpaqueOf(a, b) == IF IsInt(a) /\ IsInt(b) THEN Opaque("int") ELSE Opaque("?")

\* the float num/den (den > 0), in lowest terms
MkFloat(num, den) ==
    LET g == Gcd(Abs(num), den)
        n == num \div g
        d == den \div g
    IN  IF Abs(n) <= IntLimit /\ d <= DenLimit /\ IsPow2(d)
        THEN [k |-> "float", num |-> n, den |-> d]
        ELSE Opaque("?")

IsOpaque(v) == v.k = "opaque"
NumOf(v) == IF v.k = "int" THEN v.n ELSE v.num
DenOf(v) == IF v.k = "int" THEN 1 ELSE v.den
IsZero(v) == ~IsOpaque(v) /\ NumOf(v) = 0
IsNegative(v) == ~IsOpaque(v) /\ NumOf(v) < 0

\* float(x)
ToFloat(v) ==
    IF v.k = "int" THEN MkFloat(v.n, 1)
    ELSE IF IsInt(v) THEN Opaque("?")
    ELSE v

Ok(v) == [ok |-> TRUE, val |-> v]
Raise(exc, msg) == [ok |-> FALSE, exc |-> exc, msg |-> msg]

\* 2 ** PowLimit exceeds IntLimit
PowLimit == 20

\* b ** e for integers, e >= 0, as long as it stays within IntLimit
RECURSIVE PowNat(_, _)
PowNat(b, e) ==
    IF e = 0 THEN [ok |-> TRUE, n |-> 1]
    ELSE IF b = 0 THEN [ok |-> TRUE, n |-> 0]
    ELSE IF b = 1 THEN [ok |-> TRUE, n |-> 1]
    ELSE IF b = -1 THEN [ok |-> TRUE, n |-> IF e % 2 = 0 THEN 1 ELSE -1]
    ELSE IF e > PowLimit THEN [ok |-> FALSE]
    ELSE LET r == PowNat(b, e - 1)
         IN  IF r.ok /\ Abs(r.n * b) <= IntLimit
             THEN [ok |-> TRUE, n |-> r.n * b]
             ELSE [ok |-> FALSE]

\* a float result that is zero keeps the sign the operation gives it; the
\* model does not follow the sign of a zero
FloatResult(num, den, maybeNegZero) ==
    IF num = 0 /\ maybeNegZero THEN Opaque("?") ELSE MkFloat(num, den)

\* operator.add / sub / mul / truediv / pow / neg
operator_add(a, b) ==
    IF IsOpaque(a) \/ IsOpaque(b) THEN Ok(OpaqueOf(a, b))
    ELSE IF a.k = "int" /\ b.k = "int" THEN Ok(MkInt(a.n + b.n))
    ELSE Ok(MkFloat(NumOf(a) * DenOf(b) + NumOf(b) * DenOf(a), DenOf(a) * DenOf(b)))

operator_sub(a, b) ==
    IF IsOpaque(a) \/ IsOpaque(b) THEN Ok(OpaqueOf(a, b))
    ELSE IF a.k = "int" /\ b.k = "int" THEN Ok(MkInt(a.n - b.n))
    ELSE Ok(MkFloat(NumOf(a) * DenOf(b) - NumOf(b) * DenOf(a), DenOf(a) * DenOf(b)))

operator_mul(a, b) ==
    IF IsOpaque(a) \/ IsOpaque(b) THEN Ok(OpaqueOf(a, b))
    ELSE IF a.k = "int" /\ b.k = "int" THEN Ok(MkInt(a.n * b.n))
    ELSE Ok(FloatResult(NumOf(a) * NumOf(b), DenOf(a) * DenOf(b),
                        IsNegative(a) \/ IsNegative(b)))

operator_truediv(a, b) ==
    IF IsZero(b) THEN
        Raise("ZeroDivisionError",
              IF a.k = "int" /\ b.k = "int" THEN "division by zero"
              ELSE "float division by zero")
    ELSE IF IsOpaque(a) \/ IsOpaque(b) THEN Ok(Opaque("?"))
    ELSE LET n == NumOf(a) * DenOf(b)
             d == DenOf(a) * NumOf(b)
         IN  Ok(FloatResult(IF d < 0 THEN -n ELSE n, Abs(d),
                            IsNegative(a) \/ IsNegative(b)))

operator_pow(a, b) ==
    IF IsOpaque(b) THEN Ok(Opaque("?"))
    ELSE IF IsOpaque(a) THEN
        Ok(IF IsInt(a) /\ b.k = "int" /\ b.n >= 0 THEN Opaque("int") ELSE Opaque("?"))
    ELSE IF b.k = "float" /\ b.den # 1 THEN Ok(Opaque("?"))
    ELSE LET e == NumOf(b)
             pn == PowNat(NumOf(a), Abs(e))
             pd == PowNat(DenOf(a), Abs(e))
             exact == a.k = "int" /\ b.k = "int"
         IN  IF e >= 0 THEN
                 IF ~pn.ok \/ ~pd.ok THEN Ok(IF exact THEN Opaque("int") ELSE Opaque("?"))
                 ELSE IF exact THEN Ok(MkInt(pn.n))
                 ELSE Ok(FloatResult(pn.n, pd.n, IsNegative(a)))
             ELSE IF NumOf(a) = 0 THEN
                 Raise("ZeroDivisionError",
                       "0.0 cannot be raised to a negative power")
             ELSE IF ~pn.ok \/ ~pd.ok THEN Ok(Opaque("?"))
             ELSE Ok(MkFloat(IF pn.n < 0 THEN -pd.n ELSE pd.n, Abs(pn.n)))

operator_neg(a) ==
    IF IsOpaque(a) THEN Ok(OpaqueOf(a, a))
    ELSE IF a.k = "int" THEN Ok(MkInt(-a.n))
    ELSE Ok(FloatResult(-a.num, a.den, TRUE))

\* RootLimit * RootLimit exceeds IntLimit
RootLimit == 200

\* the integer square root of n >= 0 when n is a perfect square, else -1
ExactRoot(n) ==
    LET roots == {r \in 0..RootLimit : r * r = n}
    IN  IF roots # {} THEN CHOOSE r \in roots : TRUE ELSE -1

WrongArgs(name) == Raise("TypeError", name \o " takes another number of arguments")

\* math.sqrt(*args)
math_sqrt(args) ==
    IF Len(args) # 1 THEN WrongArgs("math.sqrt()")
    ELSE LET x == args[1]
         IN  IF IsOpaque(x) THEN Ok(Opaque("?"))
             ELSE IF NumOf(x) < 0 THEN Raise("ValueError", "math domain error")
             ELSE LET rn == ExactRoot(NumOf(x))
                      rd == ExactRoot(DenOf(x))
                  IN  IF rn >= 0 /\ rd > 0 THEN Ok(MkFloat(rn, rd))
                      ELSE Ok(Opaque("?"))

\* abs(*args)
builtin_abs(args) ==
    IF Len(args) # 1 THEN WrongArgs("abs()")
    ELSE LET x == args[1]
         IN  IF IsOpaque(x) THEN Ok(OpaqueOf(x, x))
             ELSE IF x.k = "int" THEN Ok(MkInt(Abs(x.n)))
             ELSE Ok(MkFloat(Abs(x.num), x.den))

\* num/den rounded to the nearest integer, a tie to the even one
RoundHalfEven(num, den) ==
    LET fl == IF num >= 0 THEN num \div den ELSE -((-num + den - 1) \div den)
        twice == 2 * (num - fl * den)
    IN  IF twice < den THEN fl
        ELSE IF twice > den THEN fl + 1
        ELSE IF fl % 2 = 0 THEN fl ELSE fl + 1

\* round(*args): round(x) is computed; of round(x, ndigits) only the
\* cases that leave an int unchanged
builtin_round(args) ==
    IF Len(args) = 0 \/ Len(args) > 2 THEN WrongArgs("round()")
    ELSE LET x == args[1]
         IN  IF Len(args) = 1 THEN
                 IF IsOpaque(x)
                 THEN IF x.id \in {"pi", "e"} THEN Ok(MkInt(3))
                      ELSE IF x.id = "tau" THEN Ok(MkInt(6))
                      ELSE IF x.id = "inf"
                      THEN Raise("OverflowError",
                                 "cannot convert float infinity to integer")
                      ELSE Ok(Opaque("int"))
                 ELSE IF x.k = "int" THEN Ok(x)
                 ELSE Ok(MkInt(RoundHalfEven(x.num, x.den)))
             ELSE IF ~IsInt(args[2]) THEN
                 Raise("TypeError",
                       "'float' object cannot be interpreted as an integer")
             ELSE IF x.k = "int" /\ args[2].k = "int" /\ args[2].n >= 0 THEN Ok(x)
             ELSE Ok(OpaqueOf(x, x))

DigitChar(d) ==
    CASE d = 0 -> "0" [] d = 1 -> "1" [] d = 2 -> "2" [] d = 3 -> "3"
      [] d = 4 -> "4" [] d = 5 -> "5" [] d = 6 -> "6" [] d = 7 -> "7"
      [] d = 8 -> "8" [] d = 9 -> "9"

\* the decimal digits of n >= 0
RECURSIVE NatStr(_)
NatStr(n) == IF n < 10 THEN DigitChar(n) ELSE NatStr(n \div 10) \o DigitChar(n % 10)

\* the decimal digits of r/den, 0 <= r < den, den a power of two
RECURSIVE FracDigits(_, _)
FracDigits(r, den) ==
    IF r = 0 THEN ""
    ELSE DigitChar((10 * r) \div den) \o FracDigits((10 * r) % den, den)

\* str(x) of a float x
float_str(v) ==
    IF IsOpaque(v) THEN
        IF v.id = "pi" THEN "3.141592653589793"
        ELSE IF v.id = "e" THEN "2.718281828459045"
        ELSE IF v.id = "tau" THEN "6.283185307179586"
        ELSE IF v.id = "inf" THEN "inf"
        ELSE "<float>"
    ELSE LET a == Abs(v.num)
             frac == FracDigits(a % v.den, v.den)
         IN  (IF v.num < 0 THEN "-" ELSE "")
             \o NatStr(a \div v.den) \o "."
             \o (IF frac = "" THEN "0" ELSE frac)

-----------------------------------------------------------------------------
(* Values that are no numbers: the text of a string literal and None.      *)
(* Python applies the operators of the calculators to them as to any       *)
(* object, and float() reads a text as a numeral.                          *)

NonNumber(v) == v.k \in {"str", "none"}

\* s * n for n >= 0
RECURSIVE TextTimes(_, _)
TextTimes(s, n) == IF n = 0 THEN "" ELSE s \o TextTimes(s, n - 1)

\* text * count.  For a count beyond IntLimit (taken to be positive) the
\* text stands for its repetition twice over: float() tells no repetition
\* of two or more apart but by the digits.
Repetition(text, count) ==
    IF ~IsInt(count)
    THEN Raise("TypeError", "can't multiply sequence by non-int of type 'float'")
    ELSE IF IsOpaque(count)
    THEN Ok([k |-> "str", s |-> text.s \o text.s, long |-> TRUE])
    ELSE IF count.n <= 0 THEN Ok(Text(""))
    ELSE Ok([k |-> "str", s |-> TextTimes(text.s, count.n),
             long |-> "long" \in DOMAIN text])

\* left + right for texts
Concatenation(a, b) ==
    IF "long" \in DOMAIN a \/ "long" \in DOMAIN b
    THEN [k |-> "str", s |-> a.s \o b.s, long |-> TRUE]
    ELSE Text(a.s \o b.s)

\* a binary operator of the operator module with an operand that is no number
operator_on_objects(op, a, b) ==
    IF op = "Add" /\ a.k = "str" /\ b.k = "str" THEN Ok(Concatenation(a, b))
    ELSE IF op = "Mult" /\ a.k = "str" /\ ~NonNumber(b) THEN Repetition(a, b)
    ELSE IF op = "Mult" /\ b.k = "str" /\ ~NonNumber(a) THEN Repetition(b, a)
    ELSE IF op = "Mod" /\ a.k = "str" /\ b.k # "none"
    THEN Raise("TypeError",
               "not all arguments converted during string formatting")
    ELSE Raise("TypeError", "unsupported operand type(s)")

\* end of the digits of a numeral that start at i (digit ("_"? digit)*): the
\* index after them, i itself when there is no digit
DigitsEnd(s, i) ==
    IF i <= Len(s) /\ At(s, i) \in Digits THEN NumberEnd(s, i) + 1 ELSE i

\* index after an optional sign at i
SignEnd(s, i) == IF i <= Len(s) /\ At(s, i) \in {"+", "-"} THEN i + 1 ELSE i

\* index after an optional exponent at i: (e | E) [sign] digits
ExponentEnd(s, i) ==
    IF i <= Len(s) /\ At(s, i) \in {"e", "E"}
       /\ DigitsEnd(s, SignEnd(s, i + 1)) > SignEnd(s, i + 1)
    THEN DigitsEnd(s, SignEnd(s, i + 1))
    ELSE i

\* index after the decimal numeral at i, 0 when there is none:
\* digits ["." [digits]] [exponent] | "." digits [exponent]
DecimalEnd(s, i) ==
    LET a == DigitsEnd(s, i)
        dot == a <= Len(s) /\ At(s, a) = "."
        b == IF dot THEN DigitsEnd(s, a + 1) ELSE a
    IN  IF a = i /\ (~dot \/ b = a + 1) THEN 0 ELSE ExponentEnd(s, b)

\* the text without the case of its letters, for inf, infinity and nan
LowerCase(s) ==
    LET lower(c) == CASE c = "I" -> "i" [] c = "N" -> "n" [] c = "F" -> "f"
                      [] c = "T" -> "t" [] c = "Y" -> "y" [] c = "A" -> "a"
                      [] OTHER -> c
    IN  [i \in 1..Len(s) |-> lower(At(s, i))]

\* float(text): blanks stripped, then a sign and a decimal numeral, inf,
\* infinity or nan.  A numeral of digits alone is computed.
float_of_text(text) ==
    LET t == StripSpace(text.s)
        b == SignEnd(t, 1)
        body == SubSeq(t, b, Len(t))
        minus == b = 2 /\ At(t, 1) = "-"
        e == DecimalEnd(t, b)
        v == NumberValue(body, 0)
    IN  IF Join(LowerCase(body), "") \in {"inf", "infinity"}
        THEN Ok(Opaque(IF minus THEN "?" ELSE "inf"))
        ELSE IF Join(LowerCase(body), "") = "nan" THEN Ok(Opaque("?"))
        ELSE IF e # Len(t) + 1
        THEN Raise("ValueError", "could not convert string to float")
        ELSE IF DigitsEnd(t, b) = e /\ "long" \notin DOMAIN text
                /\ ~(minus /\ v = 0)
        THEN Ok(MkFloat(IF minus THEN -v ELSE v, 1))
        ELSE Ok(Opaque("?"))

\* float(x) for an x that is no number
float_of_object(v) ==
    IF v.k = "str" THEN float_of_text(v)
    ELSE Raise("TypeError", "float() argument must be a string or a real number")

\* a function of FUNCTIONS called with an argument that is no number: only
\* round takes one, None for ndigits
function_on_objects(name, args) ==
    IF name = "round" /\ Len(args) = 2 /\ ~NonNumber(args[1])
       /\ args[2].k = "none"
    THEN builtin_round(<<args[1]>>)
    ELSE Raise("TypeError", "bad operand type for " \o name \o "()")

-----------------------------------------------------------------------------
(* safe_calculator as the three agents define it (react_agent.py 75-96,    *)
(* research_agent.py 75-96, simple_agent.py 98-120: the same text).        *)


\* OPERATORS of the agents' safe_calculator, by node type
AGENT_OPERATORS == {"Add", "Sub", "Mult", "Div", "Pow", "USub"}
\* FUNCTIONS and CONSTANTS of the agents' safe_calculator
AGENT_FUNCTIONS == {"sqrt", "abs", "round"}
AGENT_CONSTANTS == {"pi", "e"}

ConstantValue(id) == IF id = "pi" THEN Opaque("pi") ELSE Opaque("e")

ApplyBinary(op, a, b) ==
    CASE NonNumber(a) \/ NonNumber(b) -> operator_on_objects(op, a, b)
      [] op = "Add" -> operator_add(a, b)
      [] op = "Sub" -> operator_sub(a, b)
      [] op = "Mult" -> operator_mul(a, b)
      [] op = "Div" -> operator_truediv(a, b)
      [] op = "Pow" -> operator_pow(a, b)

ApplyFunction(id, args) ==
    CASE \E i \in 1..Len(args) : NonNumber(args[i]) -> function_on_objects(id, args)
      [] id = "sqrt" -> math_sqrt(args)
      [] id = "abs" -> builtin_abs(args)
      [] id = "round" -> builtin_round(args)

\* the operator applied once both operands are there
BinaryOf(op, l, r) ==
    IF ~l.ok THEN l ELSE IF ~r.ok THEN r ELSE ApplyBinary(op, l.val, r.val)

UnaryOf(v) ==
    IF ~v.ok THEN v
    ELSE IF NonNumber(v.val) THEN Raise("TypeError", "bad operand type for unary -")
    ELSE operator_neg(v.val)

CallOf(id, a) == IF ~a.ok THEN a ELSE ApplyFunction(id, a.val)

RECURSIVE agent_eval(_), agent_eval_args(_, _)

\* _eval(node).  In OPERATORS[type(node.op)](...) and FUNCTIONS[node.func.id](...)
\* the table lookup is evaluated before the operands, and the left operand
\* before the right one.
agent_eval(node) ==
    IF node.type = "Num" THEN Ok(MkInt(node.n))
    ELSE IF node.type = "Constant" THEN Ok(node.value)
    ELSE IF node.type = "Name" THEN
        \* CONSTANTS.get(node.id, 0)
        IF node.id \in AGENT_CONSTANTS THEN Ok(ConstantValue(node.id)) ELSE Ok(MkInt(0))
    ELSE IF node.type = "BinOp" THEN
        IF node.op \notin AGENT_OPERATORS
        THEN Raise("KeyError", "<class 'ast." \o node.op \o "'>")
        ELSE BinaryOf(node.op, agent_eval(node.left), agent_eval(node.right))
    ELSE IF node.type = "UnaryOp" THEN
        IF node.op \notin AGENT_OPERATORS
        THEN Raise("KeyError", "<class 'ast." \o node.op \o "'>")
        ELSE UnaryOf(agent_eval(node.operand))
    ELSE IF node.type = "Call" THEN
        IF node.func.type # "Name"
        THEN Raise("AttributeError", "object has no attribute 'id'")
        ELSE IF node.func.id \notin AGENT_FUNCTIONS
        THEN Raise("KeyError", "'" \o node.func.id \o "'")
        ELSE CallOf(node.func.id, agent_eval_args(node.args, <<>>))
    ELSE Raise("ValueError", "Unsupported: <class 'ast." \o node.type \o "'>")

\* [_eval(a) for a in node.args]
agent_eval_args(args, done) ==
    IF args = <<>> THEN Ok(done)
    ELSE LET v == agent_eval(args[1])
         IN  IF ~v.ok THEN v ELSE agent_eval_args(Tail(args), Append(done, v.val))

\* float(...) of the value _eval returns
FloatOf(v) ==
    IF ~v.ok THEN v
    ELSE IF NonNumber(v.val) THEN float_of_object(v.val)
    ELSE Ok(ToFloat(v.val))

\* _eval(tree.body) for the tree ast.parse returns
EvalTree(tree) ==
    IF ~tree.ok THEN Raise("SyntaxError", "invalid syntax")
    ELSE FloatOf(agent_eval(tree.node))

\* safe_calculator(expression): float(_eval(ast.parse(expression, mode='eval').body))
safe_calculator(expression) == EvalTree(AstParse(expression))

-----------------------------------------------------------------------------
(* Tool and ToolKit (react_agent.py 36-71, research_agent.py 38-71)        *)


\* Tool(name, description, func, parameters): parameters holds the keys of
\* the dict, in order; func names the handler
Tool(name, description, func, parameters) ==
    [name |-> name, description |-> description, func |-> func,
     parameters |-> parameters]

\* the name of the one parameter of each handler function
HandlerParam(func) ==
    CASE func = "safe_calculator" -> "expression"
      [] func \in {"wikipedia_search", "wikipedia_search_en"} -> "query"
      [] func \in {"get_current_time", "get_current_datetime"} -> "timezone"

\* what the network gives a Wikipedia request: a page, no page, a failure
NetOutcomes == {"page", "missing", "down"}

\* length of the extract of the page a Wikipedia request returns
PageLen == 900

\* extract[:500] of react_agent.py and simple_agent.py
ReactExtractLimit == 500

\* extract[:800] of research_agent.py
ResearchExtractLimit == 800

\* h twice, and s once more when odd
Doubled(h, odd, s) == IF odd THEN h \o h \o s ELSE h \o h

\* the text s repeated n times
RECURSIVE Repeated(_, _)
Repeated(s, n) ==
    IF n = 0 THEN "" ELSE Doubled(Repeated(s, n \div 2), n % 2 = 1, s)

\* data.get("extract", ""): the summary of the page
PageExtract == Repeated("a", PageLen)

\* str(result) of the calculator's float
CalcText(r) == IF r.ok THEN Ok(float_str(r.val)) ELSE r

\* func(**{param: arg}): the handler's return value, or the exception it
\* raises.  A handler called with a keyword it does not declare is a TypeError.
CallHandler(agnt, func, param, arg, net) ==
    IF param # HandlerParam(func) THEN
        Raise("TypeError", func \o "() got an unexpected keyword argument '"
                           \o param \o "'")
    ELSE IF func = "safe_calculator" THEN CalcText(safe_calculator(arg))
    ELSE IF func = "wikipedia_search" THEN
        \* the function catches its own exceptions
        IF net = "page" THEN
            IF agnt = "research"
            THEN Ok("[" \o arg \o "]\n"
                    \o Truncate(PageExtract, ResearchExtractLimit))
            ELSE Ok(Truncate(PageExtract, ReactExtractLimit))
        ELSE IF net = "missing" THEN Ok("Ne najdeno: " \o arg)
        ELSE Ok("Oshibka: <requests exception>")
    ELSE IF func = "wikipedia_search_en" THEN
        IF net = "page"
        THEN Ok("[" \o arg \o "]\n" \o Truncate(PageExtract, ResearchExtractLimit))
        ELSE IF net = "missing" THEN Ok("Not found: " \o arg)
        ELSE Ok("Error: <requests exception>")
    ELSE Ok("<datetime.now()>")

\* the outcome of a call that returns a text
Returned(text, called, failed) ==
    [raised |-> FALSE, text |-> text, exc |-> "", called |-> called,
     failed |-> failed]

\* the outcome of a call that an exception leaves
Raised(exc, called, failed) ==
    [raised |-> TRUE, text |-> "", exc |-> exc, called |-> called,
     failed |-> failed]

\* Tool.execute without its try / except: the handler's exception leaves it
Uncaught(r, called) ==
    IF r.ok THEN Returned(r.val, called, FALSE) ELSE Raised(r.exc, called, TRUE)

\* try: return str(result)  except Exception as e: return the error text
Caught(r, called) ==
    IF r.ok THEN Returned(r.val, called, FALSE)
    ELSE Returned("Oshibka: " \o r.msg, called, TRUE)

\* Tool.execute(**kwargs): str(self.func(**kwargs)), an exception becomes
\* text.  called: the handler's body ran; failed: the call raised.
Tool_execute(agnt, tool, param, arg, net) ==
    Caught(CallHandler(agnt, tool.func, param, arg, net),
           param = HandlerParam(tool.func))

\* a register that keeps the tool a name already has:
\* self.tools.setdefault(tool.name, tool)
register_keeping_first(kit, tool) ==
    IF \E i \in 1..Len(kit) : kit[i].name = tool.name
    THEN kit
    ELSE Append(kit, tool)

\* a register that moves a name registered again to the end:
\* self.tools.pop(tool.name, None); self.tools[tool.name] = tool
register_moving_last(kit, tool) ==
    Append(SelectSeq(kit, LAMBDA t : t.name # tool.name), tool)

\* ToolKit.register: self.tools[tool.name] = tool.  A dict keeps the place
\* of a key that is assigned again.
register(kit, tool) ==
    IF \E i \in 1..Len(kit) : kit[i].name = tool.name
    THEN [i \in 1..Len(kit) |-> IF kit[i].name = tool.name THEN tool ELSE kit[i]]
    ELSE Append(kit, tool)

\* name in self.tools
Registered(kit, name) == \E i \in 1..Len(kit) : kit[i].name = name

\* self.tools[name]
Lookup(kit, name) == kit[CHOOSE i \in 1..Len(kit) : kit[i].name = name]

\* list(self.tools.keys())
ToolNames(kit) == [i \in 1..Len(kit) |-> kit[i].name]

\* ToolKit.execute(name, arg) of the ReAct and the research agent
ToolKit_execute(agnt, kit, name, arg, net) ==
    IF ~Registered(kit, name) THEN
        IF agnt = "react"
        THEN Returned("Instrument '" \o name \o "' ne najden. Dostupny: "
                      \o Join(ToolNames(kit), ", "), FALSE, FALSE)
        ELSE Returned("Instrument '" \o name \o "' ne najden", FALSE, FALSE)
    ELSE LET tool == Lookup(kit, name)
         IN  IF tool.parameters = <<>>
             \* list(tool.parameters.keys())[0]
             THEN Raised("IndexError", FALSE, FALSE)
             ELSE Tool_execute(agnt, tool, tool.parameters[1], arg, net)

\* ToolKit.execute(name, **kwargs) of simple_agent.py
ToolKit_execute_kwargs(kit, name, param, arg, net) ==
    IF ~Registered(kit, name)
    THEN Returned("Instrument '" \o name \o "' ne najden", FALSE, FALSE)
    ELSE Tool_execute("simple", Lookup(kit, name), param, arg, net)

\* ToolKit.describe()
QuoteEach(params) == [i \in 1..Len(params) |-> "\"" \o params[i] \o "\""]

describe(kit) ==
    Join([i \in 1..Len(kit) |->
            "* " \o kit[i].name \o "("
            \o Join(QuoteEach(kit[i].parameters), ", ")
            \o "): " \o kit[i].description],
         "\n")

RECURSIVE RegisterAll(_, _)
RegisterAll(kit, ts) ==
    IF ts = <<>> THEN kit ELSE RegisterAll(register(kit, ts[1]), Tail(ts))

\* the registrations of main() of react_agent.py (344-363)
ReactTools ==
    <<Tool("calculator", "Vychislyaet matematicheskie vyrazheniya",
           "safe_calculator", <<"expression">>),
      Tool("wikipedia", "Ishchet informaciyu v Wikipedia",
           "wikipedia_search", <<"query">>),
      Tool("current_time", "Vozvrashchaet tekushchuyu datu i vremya",
           "get_current_time", <<"timezone">>)>>

\* the registrations of main() of research_agent.py (386-412)
ResearchTools ==
    <<Tool("calculator", "Matematicheskie vychisleniya",
           "safe_calculator", <<"expression">>),
      Tool("wikipedia_ru", "Poisk v russkoj Wikipedia",
           "wikipedia_search", <<"query">>),
      Tool("wikipedia_en", "Poisk v anglijskoj Wikipedia",
           "wikipedia_search_en", <<"query">>),
      Tool("current_date", "Tekushchaya data",
           "get_current_datetime", <<"timezone">>)>>

\* the module-level tools of simple_agent.py (145-164), registered by main()
SimpleTools ==
    <<Tool("calculator", "Vypolnyaet matematicheskie vychisleniya",
           "safe_calculator", <<"expression">>),
      Tool("wikipedia", "Ishchet informaciyu v Wikipedia",
           "wikipedia_search", <<"query">>),
      Tool("current_time", "Vozvrashchaet tekushchuyu datu i vremya",
           "get_current_time", <<"timezone">>)>>

\* ToolKit.describe() of simple_agent.py
describe_simple(kit) ==
    Join([i \in 1..Len(kit) |-> "* " \o kit[i].name \o ": " \o kit[i].description],
         "\n")

\* a Tool built without parameters: the field's default, an empty dict
ClockTool(agnt) ==
    IF agnt = "research"
    THEN Tool("current_date", "Tekushchaya data", "get_current_datetime", <<>>)
    ELSE Tool("current_time", "Tekushchee vremya", "get_current_time", <<>>)

\* the registrations of main() of each example
MainTools(agnt) ==
    CASE agnt = "react" -> ReactTools
      [] agnt = "research" -> ResearchTools
      [] agnt = "simple" -> SimpleTools

\* the tool kits an agent is built over: the one of main(), and the same
\* with the clock tool registered again without declared parameters
KitRegistrations(agnt) ==
    {MainTools(agnt), MainTools(agnt) \o <<ClockTool(agnt)>>}

Kits(agnt) == {RegisterAll(<<>>, ts) : ts \in KitRegistrations(agnt)}

-----------------------------------------------------------------------------
(* The control loop: ReActAgent.run and ResearchAgent.research             *)

\* largest max_iterations the model explores
MaxIter == 2

\* largest number of run() / research() invocations on one agent
MaxRuns == 2

\* observation[:500]
LogLimit == 500

Agents == {"react", "research", "simple"}
TextAgents == {"react", "research"}

\* the tasks given to run() / research()
Tasks == {"23 * 17 + 156", "Python"}

\* what the model answers: the sample contents of a completion
Responses ==
    {"ACTION: calculator(\"23*17+156\")",
     "ANSWER: 547",
     "THOUGHT: schitayu",
     "ACTION: calculator(\"1/0\")",
     "ACTION: current_time(\"\")",
     "ACTION: current_date(\"\")",
     "ACTION: calculator(\"2+2\")\nANSWER:",
     "THOUGHT: gotovo\nANSWER: \n",
     "ACTION: calculator(\"2+2\")\nANSWER: 4",
     "ACTION: wikipedia(Python)",
     "ACTION: wikipedia_en(\"Python\")",
     "ACTION: wikipedia(Python)\nACTION: calculator(\"2+2\")",
     "ACTION: calculator(\"x+1\")"}

NoResult == [none |-> TRUE]

EmptyLog == [queries |-> <<>>, findings |-> <<>>, sources |-> <<>>]

Message(role, content) == [role |-> role, content |-> content]

\* self.system_prompt: SYSTEM_PROMPT.format(tools=toolkit.describe())
system_prompt(agnt, kit) ==
    IF agnt = "simple"
    THEN "<SYSTEM_PROMPT>\n" \o describe_simple(kit) \o "\n<...>"
    ELSE "<SYSTEM_PROMPT>\n" \o describe(kit) \o "\n<...>"

\* the user message that opens the transcript
UserPrompt(agnt, t) ==
    IF agnt = "research" THEN "Provedi issledovanie: " \o t ELSE t

\* if answer:  -- None and the empty string are both false
Truthy(opt) == ~opt.none /\ opt.value # ""

\* an observation message that carries what the actions log keeps
Observation_truncated(text) == "OBSERVATION: " \o Truncate(text, LogLimit)

\* f"OBSERVATION: {observation}"
Observation(text) == "OBSERVATION: " \o text

\* the corrective message of an iteration without ACTION
Nudge(agnt) ==
    IF agnt = "react"
    THEN "Ukazhi ACTION s instrumentom ili ANSWER s final'nym otvetom."
    ELSE "Prodolzhaj issledovanie (ACTION) ili daj ANSWER."

\* the answer of a run that used up its iterations
FailureAnswer(agnt) ==
    IF agnt = "react" THEN "Ne udalos' najti otvet" ELSE "Issledovanie ne zaversheno"

\* the dictionary run() / research() returns
RunResult(agnt, t, answer, iterations, actions, rlog, success) ==
    IF agnt = "react"
    THEN [answer |-> answer, iterations |-> iterations, actions |-> actions,
          success |-> success]
    ELSE [topic |-> t, answer |-> answer, iterations |-> iterations,
          actions |-> actions, research_log |-> rlog, success |-> success]

\* the record appended to actions_log
ActionRecord(agnt, k, action, text) ==
    IF agnt = "react"
    THEN [iteration |-> k, tool |-> action.tool, arg |-> action.arg,
          result |-> Truncate(text, LogLimit)]
    ELSE [iteration |-> k, tool |-> action.tool, query |-> action.arg,
          result |-> Truncate(text, LogLimit)]

\* the three appends to self.research_log
LogResearch(rlog, action, text) ==
    [queries |-> Append(rlog.queries, action.arg),
     findings |-> Append(rlog.findings, Truncate(text, LogLimit)),
     sources |-> Append(rlog.sources, action.tool \o "(" \o action.arg \o ")")]

\* the exceptions _call_llm / _call_api raise: a status other than 200, and
\* the timeout of requests.post
ModelCallErrors == {"Exception: API Error", "requests.exceptions.Timeout"}

Init ==
    /\ agent \in Agents
    /\ registrations \in KitRegistrations(agent)
    /\ tools = RegisterAll(<<>>, registrations)
    /\ max_iterations \in (IF agent = "simple" THEN {0} ELSE 0..MaxIter)
    /\ task = ""
    /\ pc = "idle"
    /\ iteration = 0
    /\ messages = <<>>
    /\ actions_log = <<>>
    /\ research_log = EmptyLog
    /\ result = NoResult
    /\ error = ""
    /\ llm_calls = 0
    /\ responses = <<>>
    /\ dispatches = <<>>
    /\ handler_calls = <<>>
    /\ max_tool_calls = 0
    /\ tool_calls_count = 0
    /\ runs = 0
    /\ threads = <<>>
    /\ http_requests = <<>>
    /\ call_stack = <<>>

\* research(topic) without the reset of self.research_log
StartRun_keeping_log(t) ==
    /\ agent \in TextAgents
    /\ pc \in {"idle", "returned", "raised"}
    /\ runs < MaxRuns
    /\ runs' = runs + 1
    /\ task' = t
    /\ messages' = <<Message("system", system_prompt(agent, tools)),
                     Message("user", UserPrompt(agent, t))>>
    /\ actions_log' = <<>>
    /\ research_log' = research_log
    /\ iteration' = 0
    /\ llm_calls' = 0
    /\ responses' = <<>>
    /\ dispatches' = <<>>
    /\ handler_calls' = <<>>
    /\ error' = ""
    /\ IF max_iterations = 0
       THEN /\ pc' = "returned"
            /\ result' = RunResult(agent, t, FailureAnswer(agent), max_iterations,
                                   <<>>, research_log', FALSE)
       ELSE /\ pc' = "loop"
            /\ result' = NoResult
    /\ UNCHANGED <<agent, tools, max_iterations, max_tool_calls,
                   tool_calls_count, threads, registrations,
                   http_requests, call_stack>>

\* run(task) / research(topic) up to the first model call
StartRun(t) ==
    /\ agent \in TextAgents
    /\ pc \in {"idle", "returned", "raised"}
    /\ runs < MaxRuns
    /\ runs' = runs + 1
    /\ task' = t
    /\ messages' = <<Message("system", system_prompt(agent, tools)),
                     Message("user", UserPrompt(agent, t))>>
    /\ actions_log' = <<>>
    /\ research_log' = IF agent = "research" THEN EmptyLog ELSE research_log
    /\ iteration' = 0
    /\ llm_calls' = 0
    /\ responses' = <<>>
    /\ dispatches' = <<>>
    /\ handler_calls' = <<>>
    /\ error' = ""
    /\ IF max_iterations = 0
       THEN /\ pc' = "returned"
            /\ result' = RunResult(agent, t, FailureAnswer(agent), max_iterations,
                                   <<>>, research_log', FALSE)
       ELSE /\ pc' = "loop"
            /\ result' = NoResult
    /\ UNCHANGED <<agent, tools, max_iterations, max_tool_calls,
                   tool_calls_count, threads, registrations,
                   http_requests, call_stack>>

\* a loop that runs until the actions log holds max_iterations records:
\* while len(actions_log) < self.max_iterations
EndOfBody_by_log(k, actions, rlog) ==
    IF Len(actions) >= max_iterations
    THEN /\ pc' = "returned"
         /\ result' = RunResult(agent, task, FailureAnswer(agent), max_iterations,
                                actions, rlog, FALSE)
    ELSE /\ pc' = "loop"
         /\ UNCHANGED result

\* the end of an iteration's body: the next iteration, or the return after
\* the loop
EndOfBody(k, actions, rlog) ==
    IF k = max_iterations
    THEN /\ pc' = "returned"
         /\ result' = RunResult(agent, task, FailureAnswer(agent), max_iterations,
                                actions, rlog, FALSE)
    ELSE /\ pc' = "loop"
         /\ UNCHANGED result

\* a loop that swallows the failure of the model call and returns the
\* result of a run that used up its iterations
ModelFails_swallowed(exc) ==
    /\ agent \in TextAgents
    /\ pc = "loop"
    /\ iteration' = iteration + 1
    /\ llm_calls' = llm_calls + 1
    /\ pc' = "returned"
    /\ error' = exc
    /\ result' = RunResult(agent, task, FailureAnswer(agent), max_iterations,
                           actions_log, research_log, FALSE)
    /\ UNCHANGED <<agent, tools, max_iterations, task, messages, actions_log,
                   research_log, responses, dispatches, handler_calls,
                   max_tool_calls, tool_calls_count, runs, threads,
                   registrations,
                   http_requests, call_stack>>

\* a loop that repeats a failed model call within the same iteration
ModelFails_retried(exc) ==
    /\ agent \in TextAgents
    /\ pc = "loop"
    /\ llm_calls' = llm_calls + 1
    /\ UNCHANGED <<agent, tools, max_iterations, task, pc, iteration, messages,
                   actions_log, research_log, result, error, responses,
                   dispatches, handler_calls, max_tool_calls, tool_calls_count,
                   runs, threads, registrations,
                   http_requests, call_stack>>

\* the model call fails: the exception leaves run()
ModelFails(exc) ==
    /\ agent \in TextAgents
    /\ pc = "loop"
    /\ iteration' = iteration + 1
    /\ llm_calls' = llm_calls + 1
    /\ pc' = "raised"
    /\ error' = exc
    /\ UNCHANGED <<agent, tools, max_iterations, task, messages, actions_log,
                   research_log, result, responses, dispatches, handler_calls,
                   max_tool_calls, tool_calls_count, runs, threads,
                   registrations,
                   http_requests, call_stack>>

\* the exception Ctrl-C raises in the main thread; it is no Exception, so
\* no handler of run() or of the tools catches it
Interrupts == {"KeyboardInterrupt"}

\* a loop that takes the interrupt for the end of its iterations and
\* returns the result of a run that used them up
Interrupted_as_exhausted(exc) ==
    /\ agent \in TextAgents
    /\ pc = "loop"
    /\ iteration' = iteration + 1
    /\ llm_calls' = llm_calls + 1
    /\ pc' = "returned"
    /\ error' = exc
    /\ result' = RunResult(agent, task, FailureAnswer(agent), max_iterations,
                           actions_log, research_log, FALSE)
    /\ UNCHANGED <<agent, tools, max_iterations, task, messages, actions_log,
                   research_log, responses, dispatches, handler_calls,
                   max_tool_calls, tool_calls_count, runs, threads,
                   registrations,
                   http_requests, call_stack>>

\* the run is cancelled from outside while it is in _call_llm, before or
\* while requests.post blocks: the interrupt leaves run(), as interactive()
\* expects of agent.run(query)
Interrupted(exc) ==
    /\ agent \in TextAgents
    /\ pc = "loop"
    /\ iteration' = iteration + 1
    /\ llm_calls' = llm_calls + 1
    /\ pc' = "raised"
    /\ error' = exc
    /\ UNCHANGED <<agent, tools, max_iterations, task, messages, actions_log,
                   research_log, result, responses, dispatches, handler_calls,
                   max_tool_calls, tool_calls_count, runs, threads,
                   registrations,
                   http_requests, call_stack>>

\* a loop that puts the final answer into the transcript before it returns
Answered_recorded(k, answer) ==
    /\ pc' = "returned"
    /\ result' = RunResult(agent, task, answer, k, actions_log, research_log, TRUE)
    /\ messages' = Append(messages, Message("assistant", answer))
    /\ UNCHANGED <<actions_log, research_log, error, dispatches, handler_calls>>

\* return {"answer": answer, "iterations": iteration, ..., "success": True}
Answered(k, answer) ==
    /\ pc' = "returned"
    /\ result' = RunResult(agent, task, answer, k, actions_log, research_log, TRUE)
    /\ UNCHANGED <<messages, actions_log, research_log, error, dispatches,
                   handler_calls>>

\* a loop that keeps only the system message and the latest exchange
Dispatched_windowed(k, response, action, out) ==
    /\ dispatches' = Append(dispatches,
            [iteration |-> k, tool |-> action.tool, arg |-> action.arg])
    /\ handler_calls' =
            IF out.called
            THEN Append(handler_calls,
                    [iteration |-> k, func |-> Lookup(tools, action.tool).func,
                     arg |-> action.arg, failed |-> out.failed])
            ELSE handler_calls
    /\ IF out.raised THEN
           /\ pc' = "raised"
           /\ error' = out.exc
           /\ UNCHANGED <<messages, actions_log, research_log, result>>
       ELSE
           /\ research_log' = IF agent = "research"
                              THEN LogResearch(research_log, action, out.text)
                              ELSE research_log
           /\ actions_log' = Append(actions_log,
                                    ActionRecord(agent, k, action, out.text))
           /\ messages' = <<messages[1], Message("assistant", response),
                            Message("user", Observation(out.text))>>
           /\ UNCHANGED error
           /\ EndOfBody(k, actions_log', research_log')

\* the branch "if action:", out being what toolkit.execute gave
Dispatched(k, response, action, out) ==
    /\ dispatches' = Append(dispatches,
            [iteration |-> k, tool |-> action.tool, arg |-> action.arg])
    /\ handler_calls' =
            IF out.called
            THEN Append(handler_calls,
                    [iteration |-> k, func |-> Lookup(tools, action.tool).func,
                     arg |-> action.arg, failed |-> out.failed])
            ELSE handler_calls
    /\ IF out.raised THEN
           /\ pc' = "raised"
           /\ error' = out.exc
           /\ UNCHANGED <<messages, actions_log, research_log, result>>
       ELSE
           /\ research_log' = IF agent = "research"
                              THEN LogResearch(research_log, action, out.text)
                              ELSE research_log
           /\ actions_log' = Append(actions_log,
                                    ActionRecord(agent, k, action, out.text))
           /\ messages' = messages \o <<Message("assistant", response),
                                        Message("user", Observation(out.text))>>
           /\ UNCHANGED error
           /\ EndOfBody(k, actions_log', research_log')

\* an iteration without ACTION that is entered in the actions log all the same
Nudged_logged(k, response) ==
    /\ messages' = messages \o <<Message("assistant", response),
                                 Message("user", Nudge(agent))>>
    /\ actions_log' = Append(actions_log,
            ActionRecord(agent, k, [tool |-> "", arg |-> ""], ""))
    /\ UNCHANGED <<research_log, error, dispatches, handler_calls>>
    /\ EndOfBody(k, actions_log', research_log)

\* an iteration without ACTION that appends the response and no nudge
Nudged_unanswered(k, response) ==
    /\ messages' = Append(messages, Message("assistant", response))
    /\ UNCHANGED <<actions_log, research_log, error, dispatches, handler_calls>>
    /\ EndOfBody(k, actions_log, research_log)

\* the branch without ACTION: the corrective message
Nudged(k, response) ==
    /\ messages' = messages \o <<Message("assistant", response),
                                 Message("user", Nudge(agent))>>
    /\ UNCHANGED <<actions_log, research_log, error, dispatches, handler_calls>>
    /\ EndOfBody(k, actions_log, research_log)

\* the body of the loop for iteration k: answer is what _extract_answer and
\* action what _parse_action make of the response
Iterate(k, response, answer, action, net) ==
    /\ iteration' = k
    /\ llm_calls' = llm_calls + 1
    /\ responses' = Append(responses, response)
    /\ IF Truthy(answer) THEN Answered(k, answer.value)
       ELSE IF ~action.none
       THEN Dispatched(k, response, action,
                       ToolKit_execute(agent, tools, action.tool, action.arg, net))
       ELSE Nudged(k, response)

\* one iteration of the loop, for the response the model call returns
ModelResponds(response, net) ==
    /\ agent \in TextAgents
    /\ pc = "loop"
    /\ Iterate(iteration + 1, response, extract_answer(response),
               parse_action(response), net)
    /\ UNCHANGED <<agent, tools, max_iterations, task, max_tool_calls,
                   tool_calls_count, runs, threads, registrations,
                   http_requests, call_stack>>

-----------------------------------------------------------------------------
(* The function-calling loop: SimpleAgent.run (simple_agent.py 217-273)    *)

\* largest max_tool_calls the model explores
MaxToolCalls == 2

\* tool_call of a completion; arguments is the decoded JSON object, as its
\* (key, value) pairs in order
ToolCall(id, name, arguments) ==
    [id |-> id, function |-> [name |-> name, arguments |-> arguments]]

\* response["choices"][0]["message"]: the sample messages of the model
SimpleMessages ==
    {[role |-> "assistant", content |-> "547", tool_calls |-> <<>>],
     [role |-> "assistant", content |-> "",
      tool_calls |-> <<ToolCall("call_1", "calculator",
                                <<<<"expression", "23*17+156">>>>)>>],
     [role |-> "assistant", content |-> "",
      tool_calls |-> <<ToolCall("call_1", "lookup", <<<<"q", "x">>>>)>>],
     [role |-> "assistant", content |-> "",
      tool_calls |-> <<ToolCall("call_1", "calculator", <<<<"expr", "1/0">>>>),
                       ToolCall("call_2", "wikipedia", <<<<"query", "Python">>>>)>>],
     [role |-> "assistant", content |-> "",
      tool_calls |-> <<ToolCall("call_1", "current_time", <<>>)>>]}

\* func_args.get(first_param, list(func_args.values())[0] if func_args else "")
ArgValue(func_args, first_param) ==
    IF \E i \in 1..Len(func_args) : func_args[i][1] = first_param
    THEN func_args[CHOOSE i \in 1..Len(func_args) : func_args[i][1] = first_param][2]
    ELSE IF func_args # <<>> THEN func_args[1][2]
    ELSE ""

\* the tool message appended for a tool call
ToolMessage(id, content) ==
    [role |-> "tool", tool_call_id |-> id, content |-> content]

\* where the for loop over the tool calls stands: the transcript and the
\* call logs so far, and the exception that left it ("" when none)
Progress(exc, msgs, disp, hcalls) ==
    [raised |-> exc # "", exc |-> exc, messages |-> msgs, dispatches |-> disp,
     handler_calls |-> hcalls]

RECURSIVE ProcessToolCalls(_, _, _, _, _, _, _), AfterCall(_, _, _, _, _, _, _, _, _)

\* the for loop over message["tool_calls"] (254-271), n being the value of
\* tool_calls_count
ProcessToolCalls(kit, calls, n, msgs, disp, hcalls, net) ==
    IF calls = <<>> THEN Progress("", msgs, disp, hcalls)
    ELSE IF ~Registered(kit, calls[1].function.name) THEN
        \* self.toolkit.tools[func_name]
        Progress("KeyError", msgs, disp, hcalls)
    ELSE IF Lookup(kit, calls[1].function.name).parameters = <<>> THEN
        \* list(...)[0]
        Progress("IndexError", msgs, disp, hcalls)
    ELSE
        LET func_name == calls[1].function.name
            first_param == Lookup(kit, func_name).parameters[1]
            arg_value == ArgValue(calls[1].function.arguments, first_param)
        IN  AfterCall(kit, calls, n, msgs, disp, hcalls, net, arg_value,
                      ToolKit_execute_kwargs(kit, func_name, first_param,
                                             arg_value, net))

\* the rest of the loop once toolkit.execute gave out for the first call
AfterCall(kit, calls, n, msgs, disp, hcalls, net, arg_value, out) ==
    LET func_name == calls[1].function.name
        disp2 == Append(disp, [iteration |-> n, tool |-> func_name,
                               arg |-> arg_value])
        hcalls2 == IF out.called
                   THEN Append(hcalls,
                           [iteration |-> n, func |-> Lookup(kit, func_name).func,
                            arg |-> arg_value, failed |-> out.failed])
                   ELSE hcalls
    IN  IF out.raised THEN Progress(out.exc, msgs, disp2, hcalls2)
        ELSE ProcessToolCalls(kit, Tail(calls), n,
                              Append(msgs, ToolMessage(calls[1].id, out.text)),
                              disp2, hcalls2, net)

\* the text returned when the loop ends without a final answer
LimitText == "Prevysheno kolichestvo vyzovov instrumentov"

\* SimpleAgent.run(user_message, max_tool_calls) up to the first model call
SimpleStart(user_message, n) ==
    /\ agent = "simple"
    /\ pc \in {"idle", "returned", "raised"}
    /\ task' = user_message
    /\ max_tool_calls' = n
    /\ tool_calls_count' = 0
    /\ messages' = <<Message("system", system_prompt(agent, tools)),
                     Message("user", user_message)>>
    /\ llm_calls' = 0
    /\ responses' = <<>>
    /\ dispatches' = <<>>
    /\ handler_calls' = <<>>
    /\ error' = ""
    /\ IF n = 0
       THEN pc' = "returned" /\ result' = LimitText
       ELSE pc' = "loop" /\ result' = NoResult
    /\ UNCHANGED <<agent, tools, max_iterations, iteration, actions_log,
                   research_log, runs, threads, registrations,
                   http_requests, call_stack>>

\* _call_api raises: the exception leaves run()
SimpleFails(exc) ==
    /\ agent = "simple"
    /\ pc = "loop"
    /\ llm_calls' = llm_calls + 1
    /\ pc' = "raised"
    /\ error' = exc
    /\ UNCHANGED <<agent, tools, max_iterations, task, iteration, messages,
                   actions_log, research_log, result, responses, dispatches,
                   handler_calls, max_tool_calls, tool_calls_count, runs, threads,
                   registrations,
                   http_requests, call_stack>>

\* the pass after its for loop, n being the new tool_calls_count
Processed(n, out) ==
    /\ tool_calls_count' = n
    /\ messages' = out.messages
    /\ dispatches' = out.dispatches
    /\ handler_calls' = out.handler_calls
    /\ IF out.raised THEN
           /\ pc' = "raised"
           /\ error' = out.exc
           /\ UNCHANGED result
       ELSE IF n < max_tool_calls THEN
           /\ pc' = "loop"
           /\ UNCHANGED <<result, error>>
       ELSE
           /\ pc' = "returned"
           /\ result' = LimitText
           /\ UNCHANGED error

\* one pass of the while loop, for the message the model call returns
SimpleResponds(message, net) ==
    /\ agent = "simple"
    /\ pc = "loop"
    /\ llm_calls' = llm_calls + 1
    /\ responses' = Append(responses, message)
    /\ IF message.tool_calls = <<>> THEN
           /\ pc' = "returned"
           /\ result' = message.content
           /\ UNCHANGED <<messages, error, dispatches, handler_calls,
                          tool_calls_count>>
       ELSE
           Processed(tool_calls_count + 1,
                     ProcessToolCalls(tools, message.tool_calls,
                                      tool_calls_count + 1,
                                      Append(messages, message), dispatches,
                                      handler_calls, net))
    /\ UNCHANGED <<agent, tools, max_iterations, task, iteration, actions_log,
                   research_log, max_tool_calls, runs, threads,
                   registrations,
                   http_requests, call_stack>>

-----------------------------------------------------------------------------

Next ==
    \/ \E t \in Tasks : StartRun(t)
    \/ \E r \in Responses, net \in NetOutcomes : ModelResponds(r, net)
    \/ \E exc \in ModelCallErrors : ModelFails(exc)
    \/ \E exc \in Interrupts : Interrupted(exc)
    \/ \E t \in Tasks, n \in 0..MaxToolCalls : SimpleStart(t, n)
    \/ \E m \in SimpleMessages, net \in NetOutcomes : SimpleResponds(m, net)
    \/ \E exc \in ModelCallErrors : SimpleFails(exc)

Spec == Init /\ [][Next]_vars

-----------------------------------------------------------------------------
(* research() called from several threads on one ResearchAgent.  The       *)
(* transcript and the actions log are locals of each call; the research    *)
(* log is the attribute self.research_log of the agent, which every call   *)
(* rebinds at its start and appends to in its iterations.  A thread runs   *)
(* one iteration at a time: the model call of each iteration blocks on the *)
(* network, where another thread gets to run.                              *)

\* number of threads that call research() on the agent
NThreads == 2

\* largest max_iterations of the agent the threads share
MaxConcIter == 2

ConcTopics == {"Python", "Rust"}

ConcResponses ==
    {"ACTION: calculator(\"2+2\")", "ACTION: wikipedia_en(\"Python\")",
     "ANSWER: 547", "THOUGHT: schitayu"}

\* the locals of a research() call that has not started
IdleThread ==
    [pc |-> "idle", topic |-> "", iteration |-> 0, messages |-> <<>>,
     actions_log |-> <<>>, result |-> NoResult, error |-> ""]

ConcInit ==
    /\ agent = "research"
    /\ registrations = MainTools("research")
    /\ tools = RegisterAll(<<>>, registrations)
    /\ max_iterations \in 1..MaxConcIter
    /\ threads = [i \in 1..NThreads |-> IdleThread]
    /\ http_requests = <<>>
    /\ call_stack = <<>>
    /\ research_log = EmptyLog
    /\ task = ""
    /\ pc = "idle"
    /\ iteration = 0
    /\ messages = <<>>
    /\ actions_log = <<>>
    /\ result = NoResult
    /\ error = ""
    /\ llm_calls = 0
    /\ responses = <<>>
    /\ dispatches = <<>>
    /\ handler_calls = <<>>
    /\ max_tool_calls = 0
    /\ tool_calls_count = 0
    /\ runs = 0

\* what a thread changes: its own locals and the agent's research log
ThreadFrame ==
    UNCHANGED <<agent, tools, max_iterations, task, pc, iteration, messages,
                actions_log, result, error, llm_calls, responses, dispatches,
                handler_calls, max_tool_calls, tool_calls_count, runs,
                registrations,
                   http_requests, call_stack>>

\* the end of an iteration's body in a thread whose locals are th: the next
\* iteration, or the return after the loop with self.research_log as it is
ThreadEnd(th, rlog) ==
    IF th.iteration = max_iterations
    THEN [th EXCEPT !.pc = "returned",
                    !.result = RunResult("research", th.topic,
                                         FailureAnswer("research"),
                                         max_iterations, th.actions_log, rlog,
                                         FALSE)]
    ELSE [th EXCEPT !.pc = "loop"]

\* research(topic) in thread i up to the first model call
ThreadStarts(i, topic) ==
    /\ threads[i].pc = "idle"
    /\ research_log' = EmptyLog
    /\ threads' = [threads EXCEPT ![i] =
          ThreadEnd([IdleThread EXCEPT
                        !.topic = topic,
                        !.messages =
                            <<Message("system", system_prompt(agent, tools)),
                              Message("user", UserPrompt(agent, topic))>>],
                    EmptyLog)]
    /\ ThreadFrame

\* the model call of thread i fails: the exception leaves research()
ThreadFails(i, exc) ==
    /\ threads[i].pc = "loop"
    /\ threads' = [threads EXCEPT ![i].pc = "raised", ![i].error = exc,
                                  ![i].iteration = @ + 1]
    /\ UNCHANGED research_log
    /\ ThreadFrame

\* the branch "if action:" in thread i, out being what toolkit.execute gave
ThreadDispatched(i, th, k, response, action, out) ==
    IF out.raised THEN
        /\ threads' = [threads EXCEPT ![i] =
              [th EXCEPT !.pc = "raised", !.error = out.exc, !.iteration = k]]
        /\ UNCHANGED research_log
    ELSE
        /\ research_log' = LogResearch(research_log, action, out.text)
        /\ threads' = [threads EXCEPT ![i] =
              ThreadEnd([th EXCEPT
                            !.iteration = k,
                            !.actions_log =
                                Append(@, ActionRecord("research", k, action,
                                                       out.text)),
                            !.messages =
                                @ \o <<Message("assistant", response),
                                       Message("user", Observation(out.text))>>],
                        research_log')]

\* the body of the loop in thread i for iteration k
ThreadIterates(i, th, k, response, answer, action, net) ==
    IF Truthy(answer) THEN
        /\ threads' = [threads EXCEPT ![i] =
              [th EXCEPT !.iteration = k, !.pc = "returned",
                         !.result = RunResult("research", th.topic,
                                              answer.value, k, th.actions_log,
                                              research_log, TRUE)]]
        /\ UNCHANGED research_log
    ELSE IF ~action.none THEN
        ThreadDispatched(i, th, k, response, action,
                         ToolKit_execute("research", tools, action.tool,
                                         action.arg, net))
    ELSE
        /\ threads' = [threads EXCEPT ![i] =
              ThreadEnd([th EXCEPT
                            !.iteration = k,
                            !.messages =
                                @ \o <<Message("assistant", response),
                                       Message("user", Nudge("research"))>>],
                        research_log)]
        /\ UNCHANGED research_log

\* one iteration of the loop of thread i, for the response its model call
\* returns
ThreadResponds(i, response, net) ==
    /\ threads[i].pc = "loop"
    /\ ThreadIterates(i, threads[i], threads[i].iteration + 1, response,
                      extract_answer(response), parse_action(response), net)
    /\ ThreadFrame

ConcNext ==
    \/ \E i \in DOMAIN threads, topic \in ConcTopics : ThreadStarts(i, topic)
    \/ \E i \in DOMAIN threads, r \in ConcResponses, net \in NetOutcomes :
          ThreadResponds(i, r, net)
    \/ \E i \in DOMAIN threads, exc \in ModelCallErrors : ThreadFails(i, exc)

ConcSpec == ConcInit /\ [][ConcNext]_vars

-----------------------------------------------------------------------------
(* The two parsers on their own: _parse_action and _extract_answer applied *)
(* to one response, drawn from the texts a few parts make up.              *)

\* largest number of parts of an action argument
MaxArgParts == 3

\* largest number of parts of a response text
MaxTextParts == 5

\* the texts in shorter, and each of them with one more part
Extended(shorter, parts) == shorter \cup {t \o q : t \in shorter, q \in parts}

\* the texts made of at most n parts
RECURSIVE Texts(_, _)
Texts(parts, n) ==
    IF n = 0 THEN {""} ELSE Extended(Texts(parts, n - 1), parts)

\* tool names: \w+
ToolNameSamples == {"calculator", "a_1"}

\* action arguments without a quote character
ArgSamples == Texts({"2", "+", " ", ")", "A"}, MaxArgParts)

\* the response that is exactly ACTION: name("arg")
ActionText(name, arg) == "ACTION: " \o name \o "(\"" \o arg \o "\")"

\* response texts with and without the marker ANSWER:
TextSamples == Texts({"ANSWER:", " ", "\n", "4", "x:"}, MaxTextParts)

\* bare action arguments: calls and parentheses around a number
BareArgSamples == Texts({"f(", "(", ")", "2"}, MaxArgParts)

\* the response that is exactly ACTION: name(arg)
BareActionText(name, arg) == "ACTION: " \o name \o "(" \o arg \o ")"

ParserInputs ==
    {ActionText(name, arg) : name \in ToolNameSamples, arg \in ArgSamples}
        \cup {BareActionText(name, arg) :
                  name \in ToolNameSamples, arg \in BareArgSamples}
        \cup TextSamples

ParserInit ==
    /\ responses \in {<<r>> : r \in ParserInputs}
    /\ pc = "idle"
    /\ result = NoResult
    /\ agent = "react"
    /\ tools = <<>>
    /\ registrations = <<>>
    /\ max_iterations = 0
    /\ task = ""
    /\ iteration = 0
    /\ messages = <<>>
    /\ actions_log = <<>>
    /\ research_log = EmptyLog
    /\ error = ""
    /\ llm_calls = 0
    /\ dispatches = <<>>
    /\ handler_calls = <<>>
    /\ max_tool_calls = 0
    /\ tool_calls_count = 0
    /\ runs = 0
    /\ threads = <<>>
    /\ http_requests = <<>>
    /\ call_stack = <<>>

\* answer = self._extract_answer(response); action = self._parse_action(response)
ParseResponse ==
    /\ pc = "idle"
    /\ pc' = "parsed"
    /\ result' = [answer |-> extract_answer(responses[1]),
                  action |-> parse_action(responses[1])]
    /\ UNCHANGED <<agent, tools, max_iterations, task, iteration, messages,
                   actions_log, research_log, error, llm_calls, responses,
                   dispatches, handler_calls, max_tool_calls, tool_calls_count,
                   runs, threads, registrations,
                   http_requests, call_stack>>

ParserNext == ParseResponse

ParserSpec == ParserInit /\ [][ParserNext]_vars

-----------------------------------------------------------------------------
(* Properties of the control loop and of the tool registry                 *)

\* the not-found text dispatch gives for name in the loaded tool kit
NotFound(name) == ToolKit_execute(agent, tools, name, "x", "page")

\* C1: when no response of a run contains the marker ANSWER: and no model
\* call fails (and the run is not cancelled), the run makes exactly
\* max_iterations model calls and returns success = false, the failure
\* sentinel as answer, iterations = max_iterations.
C1_NoAnswerExhausts ==
    (/\ agent \in TextAgents
     /\ pc \in {"returned", "raised"}
     /\ error \notin ModelCallErrors \cup Interrupts
     /\ \A i \in 1..Len(responses) : ~Contains(responses[i], ANSWER_MARK))
    => /\ pc = "returned"
       /\ llm_calls = max_iterations
       /\ result.success = FALSE
       /\ result.answer = FailureAnswer(agent)
       /\ result.iterations = max_iterations

\* C2: whenever extract_answer yields a value (not None) for the response of
\* iteration k, the run returns in iteration k with success = true, that value
\* as answer and iterations = k, and nothing follows that response: no model
\* call, no dispatch, no append to the transcript or to the actions log.
C2_AnswerReturnsAtOnce ==
    agent \in TextAgents =>
        \A k \in 1..Len(responses) :
            ~extract_answer(responses[k]).none =>
                /\ pc = "returned"
                /\ result.success = TRUE
                /\ result.answer = extract_answer(responses[k]).value
                /\ result.iterations = k
                /\ llm_calls = k
                /\ \A d \in 1..Len(dispatches) : dispatches[d].iteration # k
                /\ \A a \in 1..Len(actions_log) : actions_log[a].iteration # k
                /\ Len(messages) = 2 * k

\* C3: a response that contains both the marker ANSWER: and a parseable
\* ACTION: is resolved as the terminal answer (success = true), and the tool
\* it names is not dispatched.
C3_AnswerPrecedesAction ==
    agent \in TextAgents =>
        \A k \in 1..Len(responses) :
            (/\ Contains(responses[k], ANSWER_MARK)
             /\ ~parse_action(responses[k]).none)
            => /\ pc = "returned"
               /\ result.success = TRUE
               /\ result.iterations = k
               /\ \A d \in 1..Len(dispatches) : dispatches[d].iteration # k

\* C4: when the model first answers ACTION: calculator("23*17+156") and then
\* ANSWER: 547, ReActAgent.run dispatches calculator once with 23*17+156,
\* feeds OBSERVATION: 547.0 back as a user message and returns answer "547",
\* iterations 2, success true, with one record in the actions log.
C4_CalculatorScenario ==
    (/\ agent = "react"
     /\ responses = <<"ACTION: calculator(\"23*17+156\")", "ANSWER: 547">>)
    => /\ pc = "returned"
       /\ result = [answer |-> "547", iterations |-> 2, actions |-> actions_log,
                    success |-> TRUE]
       /\ actions_log = <<[iteration |-> 1, tool |-> "calculator",
                           arg |-> "23*17+156", result |-> "547.0"]>>
       /\ dispatches = <<[iteration |-> 1, tool |-> "calculator",
                          arg |-> "23*17+156"]>>
       /\ handler_calls = <<[iteration |-> 1, func |-> "safe_calculator",
                             arg |-> "23*17+156", failed |-> FALSE]>>
       /\ Len(messages) = 4
       /\ messages[3] = Message("assistant", "ACTION: calculator(\"23*17+156\")")
       /\ messages[4] = Message("user", "OBSERVATION: 547.0")

C4_Witness ==
    /\ agent = "react"
    /\ responses = <<"ACTION: calculator(\"23*17+156\")", "ANSWER: 547">>
    /\ pc = "returned"
    /\ result.answer = "547"

\* C5: a failure inside a tool handler is not fatal: when the handler invoked
\* in iteration k fails, the loop appends the error observation to the
\* transcript, records the action, and goes on to iteration k + 1 when the
\* budget allows; the run is not aborted in iteration k.
C5_HandlerFailureNotFatal ==
    agent \in TextAgents =>
        \A h \in 1..Len(handler_calls) :
            handler_calls[h].failed =>
                LET k == handler_calls[h].iteration
                IN  /\ Len(messages) >= 2 * k + 2
                    /\ messages[2 * k + 1] = Message("assistant", responses[k])
                    /\ messages[2 * k + 2].role = "user"
                    /\ LitAt(messages[2 * k + 2].content, 1,
                             Observation("Oshibka: "))
                    /\ \E a \in 1..Len(actions_log) :
                          /\ actions_log[a].iteration = k
                          /\ LitAt(actions_log[a].result, 1, "Oshibka: ")
                    /\ pc = "raised" => iteration > k
                    /\ (iteration = k /\ k < max_iterations) => pc = "loop"
                    /\ (iteration = k /\ k = max_iterations) =>
                          (pc = "returned" /\ result.success = FALSE)

C5_Witness ==
    /\ agent \in TextAgents
    /\ pc \in {"loop", "returned"}
    /\ error = ""
    /\ \E h \in 1..Len(handler_calls) :
          handler_calls[h].failed /\ handler_calls[h].iteration < iteration

\* C6: dispatch never raises: for every registered tool, whatever parameters
\* it declares (none included), and every argument string, ToolKit.execute
\* returns a string.  Stated of the dispatches the runs make.
C6_DispatchNeverRaises ==
    agent \in TextAgents =>
        \A d \in 1..Len(dispatches) :
            Registered(tools, dispatches[d].tool) =>
                \A net \in NetOutcomes :
                    ~ToolKit_execute(agent, tools, dispatches[d].tool,
                                     dispatches[d].arg, net).raised

\* C7: dispatch of a name that is not registered returns, without raising
\* and without invoking a handler, a not-found string that lists the
\* available tool names, in the ReAct and in the research agent.  Stated of
\* the dispatches the runs make and of the observation they feed back.
C7_NotFoundListsTools ==
    agent \in TextAgents =>
        \A d \in 1..Len(dispatches) :
            ~Registered(tools, dispatches[d].tool) =>
                LET k == dispatches[d].iteration
                    text == NotFound(dispatches[d].tool).text
                IN  /\ ~NotFound(dispatches[d].tool).raised
                    /\ \A h \in 1..Len(handler_calls) :
                          handler_calls[h].iteration # k
                    /\ messages[2 * k + 2].content = Observation(text)
                    /\ Contains(text, "'" \o dispatches[d].tool \o "' ne najden")
                    /\ Contains(text, Join(ToolNames(tools), ", "))

\* C8: in SimpleAgent.run a tool call that names an unregistered tool yields
\* a not-found string as the tool message of that call and the run goes on;
\* it never raises.
C8_UnregisteredCallGoesOn ==
    agent = "simple" =>
        \A k \in 1..Len(responses) :
            \A c \in 1..Len(responses[k].tool_calls) :
                ~Registered(tools, responses[k].tool_calls[c].function.name) =>
                    /\ error # "KeyError"
                    /\ error = "" =>
                          \E m \in 1..Len(messages) :
                              /\ messages[m].role = "tool"
                              /\ messages[m].tool_call_id =
                                     responses[k].tool_calls[c].id
                              /\ Contains(messages[m].content, "ne najden")

\* C9: a failure of the model call in iteration k aborts the run with the
\* exception: no result is returned (in particular not the success = false
\* result of exhaustion), the failing step dispatches nothing, and no model
\* call or dispatch of this run follows it.
C9_ModelFailureAborts ==
    /\ []((agent \in TextAgents /\ error \in ModelCallErrors)
            => (pc = "raised" /\ result = NoResult))
    /\ [][(agent \in TextAgents /\ error' \in ModelCallErrors /\ error = "")
            => (dispatches' = dispatches /\ messages' = messages
                /\ llm_calls' = llm_calls + 1)]_vars
    /\ [][(agent \in TextAgents /\ error \in ModelCallErrors)
            => (llm_calls' = 0 /\ dispatches' = <<>> /\ error' = "")]_vars

C9_Witness ==
    /\ agent \in TextAgents
    /\ error \in ModelCallErrors
    /\ pc = "raised"
    /\ iteration >= 2
    /\ dispatches # <<>>

\* C10: the loop never retries a model call: at every point of a run the
\* number of model calls issued equals the iteration index, and it never
\* exceeds max_iterations.
C10_OneCallPerIteration ==
    agent \in TextAgents =>
        /\ llm_calls = iteration
        /\ llm_calls <= max_iterations

C10_Witness ==
    /\ agent \in TextAgents
    /\ pc = "returned"
    /\ max_iterations >= 2
    /\ llm_calls = max_iterations
    /\ iteration = max_iterations

\* C11: for every dispatched action the observation message appended to the
\* transcript carries the full tool result, "OBSERVATION: " followed by the
\* complete result, while the record of the actions log holds the result cut
\* to its first 500 characters; a longer result is not shortened in the
\* transcript.
C11_TranscriptKeepsFullResult ==
    agent \in TextAgents =>
        \A a \in 1..Len(actions_log) :
            LET rec == actions_log[a]
                k == rec.iteration
                arg == IF agent = "research" THEN rec.query ELSE rec.arg
            IN  \E net \in NetOutcomes :
                    LET out == ToolKit_execute(agent, tools, rec.tool, arg, net)
                        n == Len(out.text)
                    IN  /\ ~out.raised
                        /\ Len(messages) >= 2 * k + 2
                        /\ messages[2 * k + 2] =
                               [role |-> "user",
                                content |-> "OBSERVATION: " \o out.text]
                        /\ rec.result =
                               SubSeq(out.text, 1, IF n > 500 THEN 500 ELSE n)
                        /\ n > 500 =>
                               /\ Len(messages[2 * k + 2].content) = n + 13
                               /\ Len(rec.result) = 500

C11_Witness ==
    /\ agent \in TextAgents
    /\ \E a \in 1..Len(actions_log) :
          /\ Len(actions_log[a].result) = 500
          /\ Len(messages[2 * actions_log[a].iteration + 2].content) > 513

\* C12: at most one tool is dispatched per iteration: in every reachable
\* state of a run the number of tool dispatches equals the length of the
\* actions log and is at most the number of iterations started, also when a
\* response contains several ACTION: occurrences.
C12_OneDispatchPerIteration ==
    agent \in TextAgents =>
        /\ Len(dispatches) = Len(actions_log)
        /\ Len(dispatches) <= iteration
        /\ \A d, e \in 1..Len(dispatches) :
              dispatches[d].iteration = dispatches[e].iteration => d = e

\* C13: when a response contains several ACTION: occurrences, the action
\* parsed and dispatched is the one of the textually first occurrence (the
\* leftmost one either pattern matches), whatever mix of quoted and bare
\* forms the occurrences use.
C13_FirstOccurrenceWins ==
    agent \in TextAgents =>
        \A d \in 1..Len(dispatches) :
            LET s == responses[dispatches[d].iteration]
                occurrences == {i \in 1..Len(s) : LitAt(s, i, "ACTION:")}
                parseable == {i \in occurrences :
                                 ~QuotedAt(s, i).none \/ ~BareAt(s, i).none}
            IN  (Cardinality(occurrences) >= 2 /\ parseable # {}) =>
                    LET i == MinOf(parseable)
                        first == IF ~QuotedAt(s, i).none THEN QuotedAt(s, i)
                                 ELSE BareAt(s, i)
                    IN  /\ dispatches[d].tool = first.tool
                        /\ dispatches[d].arg = ActionOf(first).arg

\* C14: in every reachable state of a run the transcript is: a system
\* message, the user message with the task, then pairs of one assistant
\* message (the raw response of that iteration) and one user message that is
\* an OBSERVATION: message or the corrective nudge; no two assistant
\* messages follow each other and no other system message occurs.
C14_TranscriptShape ==
    (agent \in TextAgents /\ pc # "idle") =>
        /\ Len(messages) >= 2
        /\ Len(messages) % 2 = 0
        /\ messages[1].role = "system"
        /\ messages[2] = [role |-> "user", content |-> UserPrompt(agent, task)]
        /\ \A j \in 1..((Len(messages) - 2) \div 2) :
              /\ messages[2 * j + 1] =
                     [role |-> "assistant", content |-> responses[j]]
              /\ messages[2 * j + 2].role = "user"
              /\ \/ LitAt(messages[2 * j + 2].content, 1, "OBSERVATION: ")
                 \/ messages[2 * j + 2].content = Nudge(agent)
        /\ \A i \in 2..Len(messages) : messages[i].role # "system"
        /\ \A i \in 1..(Len(messages) - 1) :
              ~(messages[i].role = "assistant"
                /\ messages[i + 1].role = "assistant")

C14_Witness ==
    /\ agent \in TextAgents
    /\ Len(messages) >= 6
    /\ \E i, j \in 3..Len(messages) :
          /\ messages[i].content = Nudge(agent)
          /\ LitAt(messages[j].content, 1, "OBSERVATION: ")

\* C15: the transcript is append-only within one run: at every step of a
\* run the transcript before the step is a prefix of the transcript after
\* it; no message is removed, reordered or rewritten.
C15_TranscriptAppendOnly ==
    [][pc = "loop" =>
          /\ Len(messages') >= Len(messages)
          /\ SubSeq(messages', 1, Len(messages)) = messages]_vars

C15_Witness ==
    /\ agent = "react"
    /\ pc = "returned"
    /\ Len(messages) >= 6
    /\ Len(actions_log) >= 2

\* C16: every run starts from a fresh transcript and fresh logs: the first
\* model call of each invocation receives exactly the system prompt and the
\* user message of that invocation, and the actions log (and research_log)
\* of the invocation, also as returned, holds only entries of the
\* dispatches of that invocation.
C16_FreshStatePerRun ==
    agent \in TextAgents =>
        /\ (pc = "loop" /\ llm_calls = 0) =>
              messages = <<[role |-> "system",
                            content |-> system_prompt(agent, tools)],
                           [role |-> "user",
                            content |-> UserPrompt(agent, task)]>>
        /\ Len(actions_log) <= Len(dispatches)
        /\ \A a \in 1..Len(actions_log) :
              /\ actions_log[a].iteration = dispatches[a].iteration
              /\ actions_log[a].tool = dispatches[a].tool
        /\ agent = "research" =>
              /\ research_log.queries =
                     [a \in 1..Len(actions_log) |-> dispatches[a].arg]
              /\ Len(research_log.findings) = Len(actions_log)
              /\ Len(research_log.sources) = Len(actions_log)
        /\ pc = "returned" =>
              /\ result.actions = actions_log
              /\ agent = "research" => result.research_log = research_log

C16_Witness ==
    /\ agent = "research"
    /\ runs = 2
    /\ pc = "returned"
    /\ Len(result.actions) = 1
    /\ Len(result.research_log.queries) = 1

\* C18: a cancellation signalled from outside that arrives before or during
\* the blocking model call aborts the run and surfaces as an outcome of its
\* own: the cancelled run returns no result, neither success = true nor the
\* success = false result of exhaustion, it is not reported as a failure of
\* the model call, and the cancelling step dispatches and appends nothing.
C18_CancelledRunAborts ==
    /\ [](error = "KeyboardInterrupt" =>
            /\ pc = "raised"
            /\ result = NoResult
            /\ error \notin ModelCallErrors)
    /\ [][(error' = "KeyboardInterrupt" /\ error = "") =>
            /\ pc = "loop"
            /\ messages' = messages
            /\ dispatches' = dispatches
            /\ actions_log' = actions_log
            /\ research_log' = research_log]_vars
    /\ [][error = "KeyboardInterrupt" =>
            (runs' = runs + 1 /\ llm_calls' = 0 /\ error' = "")]_vars

C18_Witness ==
    /\ agent \in TextAgents
    /\ error = "KeyboardInterrupt"
    /\ iteration >= 2
    /\ actions_log # <<>>

\* C17: when several research invocations run concurrently on one
\* ResearchAgent, the research_log each invocation returns holds exactly the
\* queries, findings and sources of that invocation's own dispatches, under
\* every interleaving.
C17_ConcurrentRunsIsolated ==
    \A i \in DOMAIN threads :
        threads[i].pc = "returned" =>
            LET own == threads[i].actions_log
                rlog == threads[i].result.research_log
            IN  /\ rlog.queries = [a \in 1..Len(own) |-> own[a].query]
                /\ rlog.findings = [a \in 1..Len(own) |-> own[a].result]
                /\ rlog.sources =
                       [a \in 1..Len(own) |->
                           own[a].tool \o "(" \o own[a].query \o ")"]

\* C19 (as stated): parser round trip: for every tool name of word
\* characters and every argument without a quote character, parse applied
\* to the response ACTION: name("arg") returns tool name and argument arg;
\* and extract_answer applied to the response ANSWER: v returns v trimmed,
\* for every v.
C19_RoundTripAnyAnswer ==
    pc = "parsed" =>
        /\ LitAt(responses[1], 1, "ACTION: ") =>
              \A name \in ToolNameSamples, arg \in ArgSamples :
                  responses[1] = ActionText(name, arg) =>
                      result.action =
                          [none |-> FALSE, tool |-> name, arg |-> arg]
        /\ LitAt(responses[1], 1, "ANSWER:") =>
              LET v == SubSeq(responses[1], 8, Len(responses[1]))
              IN  /\ ~result.answer.none
                  /\ \E i \in 1..(Len(v) + 1), j \in 0..Len(v) :
                        /\ result.answer.value = SubSeq(v, i, j)
                        /\ \A n \in 1..Len(v) :
                              (n < i \/ n > j) => IsSpace(At(v, n))
                        /\ i <= j => (~IsSpace(At(v, i)) /\ ~IsSpace(At(v, j)))

\* C19 (amended): the same round trip, the answer v being a text that does
\* not contain the marker ANSWER: itself.
C19_ParserRoundTrip ==
    pc = "parsed" =>
        /\ LitAt(responses[1], 1, "ACTION: ") =>
              \A name \in ToolNameSamples, arg \in ArgSamples :
                  responses[1] = ActionText(name, arg) =>
                      result.action =
                          [none |-> FALSE, tool |-> name, arg |-> arg]
        /\ (/\ LitAt(responses[1], 1, "ANSWER:")
            /\ ~Contains(SubSeq(responses[1], 8, Len(responses[1])), "ANSWER:")) =>
              LET v == SubSeq(responses[1], 8, Len(responses[1]))
              IN  /\ ~result.answer.none
                  /\ \E i \in 1..(Len(v) + 1), j \in 0..Len(v) :
                        /\ result.answer.value = SubSeq(v, i, j)
                        /\ \A n \in 1..Len(v) :
                              (n < i \/ n > j) => IsSpace(At(v, n))
                        /\ i <= j => (~IsSpace(At(v, i)) /\ ~IsSpace(At(v, j)))

C19_Witness ==
    /\ pc = "parsed"
    /\ responses[1] = "ANSWER: 4\n"
    /\ result.answer = [none |-> FALSE, value |-> "4"]
    /\ result.action.none

\* C20: extract_answer returns the trimmed text that follows the last
\* occurrence of the marker ANSWER: in the response, and None exactly when
\* the marker does not occur in it.
C20_AnswerFollowsLastMarker ==
    pc = "parsed" =>
        LET s == responses[1]
            marks == {i \in 1..Len(s) : LitAt(s, i, "ANSWER:")}
        IN  /\ result.answer.none <=> marks = {}
            /\ marks # {} =>
                  LET from == MaxOf(marks) + 7
                  IN  \E i \in from..(Len(s) + 1), j \in (from - 1)..Len(s) :
                        /\ result.answer.value = SubSeq(s, i, j)
                        /\ \A n \in from..Len(s) :
                              (n < i \/ n > j) => IsSpace(At(s, n))
                        /\ i <= j => (~IsSpace(At(s, i)) /\ ~IsSpace(At(s, j)))

C20_Witness ==
    /\ pc = "parsed"
    /\ responses[1] = "ANSWER:4ANSWER: x:"
    /\ result.answer = [none |-> FALSE, value |-> "x:"]

\* the depth of open parentheses after s[i..], from depth d; -1 once a close
\* parenthesis has no open one to match
RECURSIVE ParenDepth(_, _, _)
ParenDepth(s, i, d) ==
    IF d < 0 \/ i > Len(s) THEN d
    ELSE ParenDepth(s, i + 1,
                    IF At(s, i) = "(" THEN d + 1
                    ELSE IF At(s, i) = ")" THEN d - 1 ELSE d)

\* every parenthesis of s has its match inside s
Balanced(s) == ParenDepth(s, 1, 0) = 0

\* C21: a bare-form action ACTION: name(arg) whose argument has balanced
\* parentheses (a nested call, say) is parsed into the tool name and the whole
\* argument, up to the close parenthesis that matches the call's open one.
C21_BareArgumentCapturedWhole ==
    pc = "parsed" =>
        \A name \in ToolNameSamples, arg \in BareArgSamples :
            (arg # "" /\ Balanced(arg) /\ responses[1] = BareActionText(name, arg))
                => result.action = [none |-> FALSE, tool |-> name, arg |-> arg]

\* a response in which _extract_answer finds no answer and _parse_action no
\* action
Unparseable(response) ==
    extract_answer(response).none /\ parse_action(response).none

\* C22: an iteration whose response has neither an answer nor an action
\* dispatches no tool, leaves the actions log as it is and appends exactly the
\* assistant's response and the fixed corrective user message; a run all of
\* whose responses are such returns success = false and an empty actions log.
C22_NudgeIteration ==
    /\ [][(/\ agent \in TextAgents
            /\ pc = "loop"
            /\ Len(responses') = Len(responses) + 1
            /\ Unparseable(responses'[Len(responses')]))
              => /\ dispatches' = dispatches
                 /\ handler_calls' = handler_calls
                 /\ actions_log' = actions_log
                 /\ messages' = messages \o
                        <<Message("assistant", responses'[Len(responses')]),
                          Message("user", Nudge(agent))>>]_vars
    /\ []((/\ agent \in TextAgents
           /\ pc = "returned"
           /\ \A i \in 1..Len(responses) : Unparseable(responses[i]))
              => /\ result.success = FALSE
                 /\ result.actions = <<>>
                 /\ actions_log = <<>>)

\* a run of two iterations, both without answer and action, has returned
C22_Witness ==
    /\ agent \in TextAgents
    /\ pc = "returned"
    /\ max_iterations = 2
    /\ Len(responses) = 2
    /\ \A i \in 1..2 : Unparseable(responses[i])
    /\ Len(messages) = 6
    /\ result.success = FALSE

-----------------------------------------------------------------------------
(* The tool registry on its own: ToolKit.register and ToolKit.execute of   *)
(* react_agent.py, called in any order on one ToolKit.                     *)

\* largest number of register calls on the tool kit
MaxRegistrations == 3

\* the names tools are registered under
RegistryNames == {"calculator", "current_time"}

\* the Tool objects given to register: each name with each handler, and the
\* clock tool built without parameters
ToolSamples ==
    {Tool(name, func, func, <<HandlerParam(func)>>) :
        name \in RegistryNames, func \in {"safe_calculator", "get_current_time"}}
        \cup {ClockTool("react")}

RegistryInit ==
    /\ agent = "react"
    /\ tools = <<>>
    /\ registrations = <<>>
    /\ pc = "idle"
    /\ task = ""
    /\ result = NoResult
    /\ dispatches = <<>>
    /\ handler_calls = <<>>
    /\ max_iterations = 0
    /\ iteration = 0
    /\ messages = <<>>
    /\ actions_log = <<>>
    /\ research_log = EmptyLog
    /\ error = ""
    /\ llm_calls = 0
    /\ responses = <<>>
    /\ max_tool_calls = 0
    /\ tool_calls_count = 0
    /\ runs = 0
    /\ threads = <<>>
    /\ http_requests = <<>>
    /\ call_stack = <<>>

\* toolkit.register(tool)
RegisterTool(tool) ==
    /\ Len(registrations) < MaxRegistrations
    /\ registrations' = Append(registrations, tool)
    /\ tools' = register(tools, tool)
    /\ pc' = "registered"
    /\ UNCHANGED <<agent, max_iterations, task, iteration, messages,
                   actions_log, research_log, result, error, llm_calls,
                   responses, dispatches, handler_calls, max_tool_calls,
                   tool_calls_count, runs, threads, http_requests,
                   call_stack>>

\* what toolkit.execute(name, arg) leaves behind, out being its outcome
DispatchDone(name, arg, out) ==
    /\ pc' = "dispatched"
    /\ task' = name
    /\ result' = out
    /\ dispatches' = <<[iteration |-> 0, tool |-> name, arg |-> arg]>>
    /\ handler_calls' =
            IF out.called
            THEN <<[iteration |-> 0, func |-> Lookup(tools, name).func,
                    arg |-> arg, failed |-> out.failed]>>
            ELSE <<>>
    /\ UNCHANGED <<agent, tools, max_iterations, iteration, messages,
                   actions_log, research_log, error, llm_calls, responses,
                   max_tool_calls, tool_calls_count, runs, threads,
                   registrations,
                   http_requests, call_stack>>

\* toolkit.execute(name, arg)
DispatchTool(name, arg) ==
    DispatchDone(name, arg, ToolKit_execute(agent, tools, name, arg, "page"))

\* toolkit.describe()
DescribeKit ==
    /\ pc' = "described"
    /\ task' = ""
    /\ result' = Returned(describe(tools), FALSE, FALSE)
    /\ dispatches' = <<>>
    /\ handler_calls' = <<>>
    /\ UNCHANGED <<agent, tools, max_iterations, iteration, messages,
                   actions_log, research_log, error, llm_calls, responses,
                   max_tool_calls, tool_calls_count, runs, threads,
                   registrations,
                   http_requests, call_stack>>

RegistryNext ==
    \/ \E tool \in ToolSamples : RegisterTool(tool)
    \/ \E name \in RegistryNames \cup {"wikipedia"} : DispatchTool(name, "2+2")
    \/ DescribeKit

RegistrySpec == RegistryInit /\ [][RegistryNext]_vars

\* the indices of the register calls made for name
RegistrationsOf(name) ==
    {i \in 1..Len(registrations) : registrations[i].name = name}

\* the Tool object of the most recent register call for name
LastRegistration(name) == registrations[MaxOf(RegistrationsOf(name))]

UnknownNameExpressions == {"x+1"}

\* C24: when an agent dispatches its calculator tool with an expression that
\* names an identifier outside the constants, the call fails and the
\* observation is an error text; the identifier is never taken for zero.
C24_UnknownIdentifierIsError ==
    \A i \in 1..Len(handler_calls) :
        (/\ handler_calls[i].func = "safe_calculator"
         /\ handler_calls[i].arg \in UnknownNameExpressions)
            => handler_calls[i].failed

-----------------------------------------------------------------------------
(* The calculator tool of tools/calculator.py: OPERATORS, FUNCTIONS,       *)
(* CONSTANTS, _eval_node, safe_calculator and calculator_tool.             *)

\* floor(n / d) for integers, d # 0
FloorQuot(n, d) ==
    LET a == IF d < 0 THEN -n ELSE n
        b == Abs(d)
    IN  IF a >= 0 THEN a \div b ELSE -((-a + b - 1) \div b)

\* a floor division that rounds towards zero, as int(a / b) does
operator_floordiv_truncating(a, b) ==
    IF IsZero(b) THEN Raise("ZeroDivisionError", "integer division or modulo by zero")
    ELSE IF IsOpaque(a) \/ IsOpaque(b) THEN Ok(OpaqueOf(a, b))
    ELSE IF a.k = "int" /\ b.k = "int"
    THEN Ok(MkInt((IF (a.n < 0) = (b.n < 0) THEN 1 ELSE -1)
                  * (Abs(a.n) \div Abs(b.n))))
    ELSE Ok(Opaque("?"))

\* operator.floordiv
operator_floordiv(a, b) ==
    IF IsZero(b) THEN
        Raise("ZeroDivisionError",
              IF a.k = "int" /\ b.k = "int"
              THEN "integer division or modulo by zero"
              ELSE "float floor division by zero")
    ELSE IF IsOpaque(a) \/ IsOpaque(b) THEN Ok(OpaqueOf(a, b))
    ELSE IF a.k = "int" /\ b.k = "int" THEN Ok(MkInt(FloorQuot(a.n, b.n)))
    ELSE Ok(FloatResult(FloorQuot(NumOf(a) * DenOf(b), DenOf(a) * NumOf(b)), 1,
                        IsNegative(a) \/ IsNegative(b)))

\* operator.mod: the remainder has the sign of the divisor
operator_mod(a, b) ==
    IF IsZero(b) THEN
        Raise("ZeroDivisionError",
              IF a.k = "int" /\ b.k = "int"
              THEN "integer division or modulo by zero"
              ELSE "float modulo")
    ELSE IF IsOpaque(a) \/ IsOpaque(b) THEN Ok(OpaqueOf(a, b))
    ELSE IF a.k = "int" /\ b.k = "int"
    THEN Ok(MkInt(a.n - b.n * FloorQuot(a.n, b.n)))
    ELSE LET x == NumOf(a) * DenOf(b)
             y == DenOf(a) * NumOf(b)
         IN  Ok(FloatResult(x - y * FloorQuot(x, y), DenOf(a) * DenOf(b),
                            IsNegative(a) \/ IsNegative(b)))

\* operator.pos
operator_pos(a) == Ok(a)

\* math.floor(*args) and math.ceil(*args)
math_floor(args) ==
    IF Len(args) # 1 THEN WrongArgs("math.floor()")
    ELSE LET x == args[1]
         IN  IF IsOpaque(x) THEN
                 IF x.id = "inf"
                 THEN Raise("OverflowError", "cannot convert float infinity to integer")
                 ELSE Ok(Opaque("int"))
             ELSE Ok(MkInt(FloorQuot(NumOf(x), DenOf(x))))

math_ceil(args) ==
    IF Len(args) # 1 THEN WrongArgs("math.ceil()")
    ELSE LET x == args[1]
         IN  IF IsOpaque(x) THEN
                 IF x.id = "inf"
                 THEN Raise("OverflowError", "cannot convert float infinity to integer")
                 ELSE Ok(Opaque("int"))
             ELSE Ok(MkInt(-FloorQuot(-NumOf(x), DenOf(x))))

\* n! as long as it stays within IntLimit
RECURSIVE Factorial(_)
Factorial(n) ==
    IF n <= 1 THEN MkInt(1)
    ELSE LET f == Factorial(n - 1)
         IN  IF IsOpaque(f) THEN f ELSE MkInt(n * f.n)

\* math.factorial(*args)
math_factorial(args) ==
    IF Len(args) # 1 THEN WrongArgs("math.factorial()")
    ELSE LET x == args[1]
         IN  IF ~IsInt(x)
             THEN Raise("TypeError",
                        "'float' object cannot be interpreted as an integer")
             ELSE IF IsOpaque(x) THEN Ok(Opaque("int"))
             ELSE IF x.n < 0
             THEN Raise("ValueError", "factorial() not defined for negative values")
             ELSE Ok(Factorial(x.n))

\* math.gcd(*integers)
RECURSIVE math_gcd(_)
math_gcd(args) ==
    IF args = <<>> THEN Ok(MkInt(0))
    ELSE IF ~IsInt(args[1])
    THEN Raise("TypeError", "'float' object cannot be interpreted as an integer")
    ELSE LET rest == math_gcd(Tail(args))
         IN  IF ~rest.ok THEN rest
             ELSE IF IsOpaque(args[1]) \/ IsOpaque(rest.val) THEN Ok(Opaque("int"))
             ELSE Ok(MkInt(Gcd(Abs(args[1].n), rest.val.n)))

\* math.sin, cos, tan, asin, acos, atan, log, log10, log2, exp: the value is
\* a float whose digits the model does not compute; the domain errors are
\* those of a computed argument
math_function(name, args) ==
    IF Len(args) = 0 \/ Len(args) > (IF name = "log" THEN 2 ELSE 1)
    THEN WrongArgs("math." \o name \o "()")
    ELSE LET x == args[1]
         IN  IF IsOpaque(x) THEN
                 IF x.id = "inf" /\ name \in {"sin", "cos", "tan", "asin", "acos"}
                 THEN Raise("ValueError", "math domain error")
                 ELSE Ok(Opaque("?"))
             ELSE IF name \in {"log", "log10", "log2"} /\ NumOf(x) <= 0
             THEN Raise("ValueError", "math domain error")
             ELSE IF name \in {"asin", "acos"} /\ Abs(NumOf(x)) > DenOf(x)
             THEN Raise("ValueError", "math domain error")
             ELSE Ok(Opaque("?"))

\* the keys of OPERATORS, by node type
OPERATORS ==
    {"Add", "Sub", "Mult", "Div", "FloorDiv", "Mod", "Pow", "USub", "UAdd"}

\* the keys of FUNCTIONS, in order
FUNCTIONS ==
    <<"sqrt", "sin", "cos", "tan", "asin", "acos", "atan", "log", "log10",
      "log2", "exp", "abs", "round", "floor", "ceil", "factorial", "gcd">>

FunctionNames == {FUNCTIONS[i] : i \in 1..Len(FUNCTIONS)}

\* the keys of the dictionary of constants: math.pi, math.e, math.tau, math.inf
CALC_CONSTANTS == {"pi", "e", "tau", "inf"}

\* OPERATORS[type(node.op)](left, right)
ApplyOperator(op, a, b) ==
    CASE NonNumber(a) \/ NonNumber(b) -> operator_on_objects(op, a, b)
      [] op = "Add" -> operator_add(a, b)
      [] op = "Sub" -> operator_sub(a, b)
      [] op = "Mult" -> operator_mul(a, b)
      [] op = "Div" -> operator_truediv(a, b)
      [] op = "FloorDiv" -> operator_floordiv(a, b)
      [] op = "Mod" -> operator_mod(a, b)
      [] op = "Pow" -> operator_pow(a, b)

\* OPERATORS[type(node.op)](operand)
ApplyUnary(op, a) ==
    IF NonNumber(a) THEN Raise("TypeError", "bad operand type for unary operator")
    ELSE IF op = "USub" THEN operator_neg(a) ELSE operator_pos(a)

\* FUNCTIONS[func_name](*args); a name outside FUNCTIONS stands for whatever
\* callable the name would reach
CallFunction(name, args) ==
    CASE name \in FunctionNames /\ \E i \in 1..Len(args) : NonNumber(args[i]) ->
            function_on_objects(name, args)
      [] name = "sqrt" -> math_sqrt(args)
      [] name = "abs" -> builtin_abs(args)
      [] name = "round" -> builtin_round(args)
      [] name = "floor" -> math_floor(args)
      [] name = "ceil" -> math_ceil(args)
      [] name = "factorial" -> math_factorial(args)
      [] name = "gcd" -> math_gcd(args)
      [] name \in FunctionNames \ {"sqrt", "abs", "round", "floor", "ceil",
                                   "factorial", "gcd"} -> math_function(name, args)
      [] OTHER -> Ok(Opaque("?"))

\* an outcome together with the callables invoked on the way to it, in order
Traced(r, calls) == [r |-> r, calls |-> calls]

\* the callee of a Call node: a plain name that is a key of FUNCTIONS
Callee(func) ==
    IF func.type # "Name"
    THEN Raise("ValueError", "Podderzhivayutsya tol'ko prostye vyzovy funkcij")
    ELSE IF func.id \notin FunctionNames
    THEN Raise("ValueError", "Neizvestnaya funkciya: " \o func.id
                             \o ". Dostupny: " \o Join(FUNCTIONS, ", "))
    ELSE Ok(func.id)

\* the BinOp case once both operands are evaluated: left, right, then the
\* lookup of the operator
EvalBinOp(op, l, r) ==
    IF ~l.r.ok THEN l
    ELSE IF ~r.r.ok THEN Traced(r.r, l.calls \o r.calls)
    ELSE IF op \notin OPERATORS
    THEN Traced(Raise("ValueError", "Nepodderzhivaemyj operator: " \o op),
                l.calls \o r.calls)
    ELSE Traced(ApplyOperator(op, l.r.val, r.r.val), l.calls \o r.calls \o <<op>>)

\* the UnaryOp case once the operand is evaluated
EvalUnaryOp(op, v) ==
    IF ~v.r.ok THEN v
    ELSE IF op \notin OPERATORS
    THEN Traced(Raise("ValueError", "Nepodderzhivaemyj operator: " \o op), v.calls)
    ELSE Traced(ApplyUnary(op, v.r.val), Append(v.calls, op))

\* the Call case once the callee is resolved and the arguments are evaluated
EvalCall(callee, a) ==
    IF ~callee.ok THEN Traced(callee, <<>>)
    ELSE IF ~a.r.ok THEN a
    ELSE Traced(CallFunction(callee.val, a.r.val), Append(a.calls, callee.val))

\* one more argument v after those of done
NextArg(done, v) ==
    IF ~v.r.ok THEN Traced(v.r, done.calls \o v.calls)
    ELSE Traced(Ok(Append(done.r.val, v.r.val)), done.calls \o v.calls)

RECURSIVE eval_node(_), eval_args(_, _)

\* _eval_node(node)
eval_node(node) ==
    IF node.type = "Num" THEN Traced(Ok(MkInt(node.n)), <<>>)
    ELSE IF node.type = "Constant" THEN Traced(Ok(node.value), <<>>)
    ELSE IF node.type = "Name" THEN
        IF node.id \in CALC_CONSTANTS THEN Traced(Ok(Opaque(node.id)), <<>>)
        ELSE Traced(Raise("ValueError", "Neizvestnaya konstanta: " \o node.id), <<>>)
    ELSE IF node.type = "BinOp" THEN
        EvalBinOp(node.op, eval_node(node.left), eval_node(node.right))
    ELSE IF node.type = "UnaryOp" THEN
        EvalUnaryOp(node.op, eval_node(node.operand))
    ELSE IF node.type = "Call" THEN
        EvalCall(Callee(node.func), eval_args(node.args, Traced(Ok(<<>>), <<>>)))
    ELSE Traced(Raise("ValueError", "Nepodderzhivaemyj tip uzla: " \o node.type),
                <<>>)

\* [_eval_node(arg) for arg in node.args]
eval_args(args, done) ==
    IF args = <<>> \/ ~done.r.ok THEN done
    ELSE eval_args(Tail(args), NextArg(done, eval_node(args[1])))

\* tree = ast.parse(expression, mode='eval'); result = _eval_node(tree.body);
\* float(result): what the body of the try block gives
TryBody(tree) ==
    IF ~tree.ok THEN Traced(Raise("SyntaxError", "invalid syntax"), <<>>)
    ELSE LET v == eval_node(tree.node)
         IN  Traced(FloatOf(v.r), v.calls)

\* what safe_calculator gives: its outcome r, the callables invoked, and
\* raised, the exception that left its try block (NoRaise when none did)
NoRaise == [exc |-> "", msg |-> ""]

Outcome(r, calls, raised) == [r |-> r, calls |-> calls, raised |-> raised]

\* a safe_calculator with the clause except Exception alone
Rewrapped_by_one_clause(expression, body) ==
    IF body.r.ok THEN Outcome(body.r, body.calls, NoRaise)
    ELSE Outcome(Raise("ValueError", "Oshibka vychisleniya '" \o expression
                                     \o "': " \o body.r.msg),
                 body.calls, [exc |-> body.r.exc, msg |-> body.r.msg])

\* a safe_calculator without the clause except ZeroDivisionError
Rewrapped_without_zero_clause(expression, body) ==
    IF body.r.ok THEN Outcome(body.r, body.calls, NoRaise)
    ELSE IF body.r.exc = "SyntaxError"
    THEN Outcome(Raise("ValueError", "Sintaksicheskaya oshibka v vyrazhenii '"
                                     \o expression \o "': " \o body.r.msg),
                 body.calls, [exc |-> body.r.exc, msg |-> body.r.msg])
    ELSE Outcome(Raise("ValueError", "Oshibka vychisleniya '" \o expression
                                     \o "': " \o body.r.msg),
                 body.calls, [exc |-> body.r.exc, msg |-> body.r.msg])

\* the except clauses of safe_calculator, for what its try block gave
Rewrapped(expression, body) ==
    IF body.r.ok THEN Outcome(body.r, body.calls, NoRaise)
    ELSE IF body.r.exc = "SyntaxError"
    THEN Outcome(Raise("ValueError", "Sintaksicheskaya oshibka v vyrazhenii '"
                                     \o expression \o "': " \o body.r.msg),
                 body.calls, [exc |-> body.r.exc, msg |-> body.r.msg])
    ELSE IF body.r.exc = "ZeroDivisionError"
    THEN Outcome(Raise("ValueError", "Delenie na nol'"),
                 body.calls, [exc |-> body.r.exc, msg |-> body.r.msg])
    ELSE Outcome(Raise("ValueError", "Oshibka vychisleniya '" \o expression
                                     \o "': " \o body.r.msg),
                 body.calls, [exc |-> body.r.exc, msg |-> body.r.msg])

\* a safe_calculator for which nothing to compute is zero
calc_safe_calculator_empty_is_zero(expression) ==
    IF StripSpace(expression) = ""
    THEN Outcome(Ok(MkFloat(0, 1)), <<>>, NoRaise)
    ELSE Rewrapped(StripSpace(expression), TryBody(AstParse(StripSpace(expression))))

\* safe_calculator(expression) of tools/calculator.py
calc_safe_calculator(expression) ==
    IF StripSpace(expression) = ""
    THEN Outcome(Raise("ValueError", "Vyrazhenie ne mozhet byt' pustym"), <<>>,
                 NoRaise)
    ELSE Rewrapped(StripSpace(expression), TryBody(AstParse(StripSpace(expression))))

\* calculator_tool.execute(expression=...): Tool.execute of tools/calculator.py
calculator_tool_execute(expression) ==
    Caught(CalcText(calc_safe_calculator(expression).r), TRUE)

-----------------------------------------------------------------------------
(* safe_calculator and calculator_tool.execute applied to one expression:  *)
(* the cases of test_calculator, arithmetic on integer literals written    *)
(* out from its syntax tree, and texts a few parts make up.                *)

\* largest integer literal of the arithmetic expressions
MaxLiteral == 3

\* largest number of parts of an expression text
MaxExprParts == 3

Num(n) == [type |-> "Num", n |-> n]
BinOp(op, l, r) == [type |-> "BinOp", op |-> op, left |-> l, right |-> r]
UnaryOp(op, v) == [type |-> "UnaryOp", op |-> op, operand |-> v]

BinaryOps == {"Add", "Sub", "Mult", "Div", "FloorDiv", "Mod", "Pow"}
UnaryOps == {"USub", "UAdd"}

Literals == {Num(n) : n \in 0..MaxLiteral}

\* a literal, with a sign or without
Atoms == Literals \cup {UnaryOp(u, l) : u \in UnaryOps, l \in Literals}

\* one operator on two literals
SimpleTrees == {BinOp(op, l, r) : op \in BinaryOps, l \in Literals, r \in Literals}

\* the syntax trees of the arithmetic expressions
ArithTrees ==
    Atoms
    \cup {BinOp(op, a, b) : op \in BinaryOps, a \in Atoms, b \in Atoms}
    \cup {BinOp(op, t, l) : op \in BinaryOps, t \in SimpleTrees, l \in Literals}
    \cup {BinOp(op, l, t) : op \in BinaryOps, l \in Literals, t \in SimpleTrees}
    \cup {UnaryOp(u, t) : u \in UnaryOps, t \in SimpleTrees}
    \cup {UnaryOp(u, UnaryOp(v, l)) : u \in UnaryOps, v \in UnaryOps, l \in Literals}

OpSymbol(op) ==
    CASE op = "Add" -> "+" [] op = "Sub" -> "-" [] op = "Mult" -> "*"
      [] op = "Div" -> "/" [] op = "FloorDiv" -> "//" [] op = "Mod" -> "%"
      [] op = "Pow" -> "**" [] op = "USub" -> "-" [] op = "UAdd" -> "+"

\* how tightly the operator at the root of a tree binds
Binding(t) ==
    IF t.type = "BinOp" THEN
        IF t.op \in {"Add", "Sub"} THEN 1 ELSE IF t.op = "Pow" THEN 4 ELSE 2
    ELSE IF t.type = "UnaryOp" THEN 3
    ELSE 5

InParens(text) == "(" \o text \o ")"

\* the text of an operand, in parentheses when it binds less tightly than
\* the place it stands in asks for
Operand(t, text, least) == IF Binding(t) < least THEN InParens(text) ELSE text

\* the expression a syntax tree is written as
RECURSIVE Render(_)
Render(t) ==
    IF t.type = "Num" THEN NatStr(t.n)
    ELSE IF t.type = "UnaryOp"
    THEN OpSymbol(t.op) \o Operand(t.operand, Render(t.operand), 3)
    ELSE IF t.op = "Pow"
    THEN Operand(t.left, Render(t.left), 5) \o " ** "
         \o Operand(t.right, Render(t.right), 4)
    ELSE Operand(t.left, Render(t.left), Binding(t)) \o " " \o OpSymbol(t.op)
         \o " " \o Operand(t.right, Render(t.right), Binding(t) + 1)

\* Reference integer arithmetic: an integer within IntLimit, "div0" for a
\* zero divisor, "other" for a value that is no such integer
RefInt(n) == IF Abs(n) <= IntLimit THEN [k |-> "int", n |-> n] ELSE [k |-> "other"]
RefDiv0 == [k |-> "div0"]
RefOther == [k |-> "other"]

\* the q with q * d <= n < (q + 1) * d, mirrored for a negative d
RefFloorDiv(n, d) ==
    CHOOSE q \in (-Abs(n))..Abs(n) :
        IF d > 0 THEN q * d <= n /\ n < (q + 1) * d
        ELSE q * d >= n /\ n > (q + 1) * d

\* the r with the sign of d, smaller than d, that n differs from by a
\* multiple of d
RefMod(n, d) ==
    CHOOSE r \in (IF d > 0 THEN 0..(d - 1) ELSE (d + 1)..0) :
        \E q \in (-Abs(n) - 1)..(Abs(n) + 1) : n = q * d + r

\* b to the power e >= 0
RECURSIVE RefPow(_, _)
RefPow(b, e) ==
    IF e = 0 THEN RefInt(1)
    ELSE LET p == RefPow(b, e - 1)
         IN  IF p.k = "int" THEN RefInt(p.n * b) ELSE p

RefBinary(op, l, r) ==
    IF l.k = "div0" \/ r.k = "div0" THEN RefDiv0
    ELSE IF op \in {"Div", "FloorDiv", "Mod"} /\ r.k = "int" /\ r.n = 0 THEN RefDiv0
    ELSE IF l.k = "other" \/ r.k = "other" \/ op = "Div" THEN RefOther
    ELSE IF op = "Add" THEN RefInt(l.n + r.n)
    ELSE IF op = "Sub" THEN RefInt(l.n - r.n)
    ELSE IF op = "Mult" THEN RefInt(l.n * r.n)
    ELSE IF op = "FloorDiv" THEN RefInt(RefFloorDiv(l.n, r.n))
    ELSE IF op = "Mod" THEN RefInt(RefMod(l.n, r.n))
    ELSE IF r.n < 0 THEN RefOther
    ELSE RefPow(l.n, r.n)

RefUnary(op, v) ==
    IF v.k = "int" /\ op = "USub" THEN RefInt(-v.n) ELSE v

\* the value of a syntax tree in the reference arithmetic
RECURSIVE RefEval(_)
RefEval(t) ==
    IF t.type = "Num" THEN RefInt(t.n)
    ELSE IF t.type = "UnaryOp" THEN RefUnary(t.op, RefEval(t.operand))
    ELSE RefBinary(t.op, RefEval(t.left), RefEval(t.right))

\* an expression and what the reference arithmetic expects of it
Case(expression, expected) == [expression |-> expression, expected |-> expected]

\* the assertions of test_calculator on integer arithmetic
TestCases ==
    {Case("2 + 2", RefInt(4)), Case("10 - 3", RefInt(7)), Case("5 * 3", RefInt(15)),
     Case("2 ** 8", RefInt(256)), Case("10 // 3", RefInt(3)),
     Case("10 % 3", RefInt(1)), Case("-5", RefInt(-5)), Case("--5", RefInt(5)),
     Case("2 + 3 * 4", RefInt(14)), Case("(2 + 3) * 4", RefInt(20))}

\* expressions with literals that are no numerals
LiteralSamples ==
    {"True", "False + 1", "None", "None + 1", "'2'", "\"7\"", "'a'", "'1' '2'",
     "'2' * 2", "-'3'", "abs('1')", "round(2, None)"}

\* expression texts: calls, names, a zero divisor, tuples and blanks
ExpressionSamples ==
    Texts({"abs(1", ",**x", ")", "x", "f(1", "(1", "1", "/0", "+", " ", ","},
          MaxExprParts)
        \cup {"\t", "\n", " \t\n ", " 1 + 1\n", "pi", "sqrt", "pi(1)", "abs(x)",
              "round(1, 1)", "gcd(4, 6)", "factorial(3)", "floor(7 / 2)",
              "1 // 0 + x", "x + 1 % 0", "abs(1)(1)", "abs(*x)"}
        \cup LiteralSamples

CalcInputs ==
    {Case(Render(t), RefEval(t)) : t \in ArithTrees}
        \cup TestCases
        \cup {Case(x, [k |-> "none"]) : x \in ExpressionSamples}

CalcInit ==
    /\ task \in CalcInputs
    /\ pc = "idle"
    /\ result = NoResult
    /\ agent = "simple"
    /\ tools = <<>>
    /\ registrations = <<>>
    /\ max_iterations = 0
    /\ iteration = 0
    /\ messages = <<>>
    /\ actions_log = <<>>
    /\ research_log = EmptyLog
    /\ error = ""
    /\ llm_calls = 0
    /\ responses = <<>>
    /\ dispatches = <<>>
    /\ handler_calls = <<>>
    /\ max_tool_calls = 0
    /\ tool_calls_count = 0
    /\ runs = 0
    /\ threads = <<>>
    /\ http_requests = <<>>
    /\ call_stack = <<>>

CalcFrame ==
    UNCHANGED <<agent, tools, max_iterations, task, iteration, messages,
                actions_log, research_log, error, llm_calls, responses,
                dispatches, handler_calls, max_tool_calls, tool_calls_count,
                runs, threads, registrations,
                   http_requests, call_stack>>

\* safe_calculator(expression), called as test_calculator calls it
CalcEvaluate ==
    /\ pc = "idle"
    /\ pc' = "evaluated"
    /\ result' = calc_safe_calculator(task.expression)
    /\ CalcFrame

\* calculator_tool.execute(expression=expression), as a dispatch calls it
CalcExecute ==
    /\ pc = "idle"
    /\ pc' = "executed"
    /\ result' = calculator_tool_execute(task.expression)
    /\ CalcFrame

CalcNext == CalcEvaluate \/ CalcExecute

CalcSpec == CalcInit /\ [][CalcNext]_vars

-----------------------------------------------------------------------------
(* Properties of the calculator tool                                       *)

\* the tokens of an expression as safe_calculator parses it
ExprTokens(expression) == Tokenize(StripSpace(expression), 1)

\* the token at k is a name that is called and is no key of FUNCTIONS, or
\* a name that is not called and is no constant
UnknownAt(ts, k) ==
    /\ ts[k].t = "name"
    /\ ts[k].id \notin LiteralNames
    /\ IF IsOp(ts, k + 1, "(") THEN ts[k].id \notin FunctionNames
       ELSE ts[k].id \notin CALC_CONSTANTS

\* the expression names an identifier outside the two whitelists
UnknownReference(ts) == \E k \in 1..Len(ts) : UnknownAt(ts, k)

\* C23: safe_calculator of tools/calculator.py fails for every expression
\* that names an identifier outside the constants or calls a function outside
\* FUNCTIONS; it gives no number for such an expression.
C23_UnknownIdentifierFails ==
    (pc = "evaluated" /\ UnknownReference(ExprTokens(task.expression)))
        => ~result.r.ok

\* all the characters of s are whitespace; the empty string counts
OnlyWhitespace(s) == \A i \in 1..Len(s) : At(s, i) \in {" ", "\t", "\n"}

\* C25: safe_calculator fails with an error for the empty string and for
\* every string of whitespace only, and so does the tool built on it; neither
\* gives 0 or any other number.
C25_EmptyInputFails ==
    OnlyWhitespace(task.expression) =>
        /\ pc = "evaluated" => (~result.r.ok /\ result.r.exc = "ValueError")
        /\ pc = "executed" => (result.failed /\ LitAt(result.text, 1, "Oshibka: "))

\* safe_calculator has been given three blanks and has failed
C25_Witness ==
    /\ pc = "evaluated"
    /\ task.expression = "   "
    /\ ~result.r.ok
    /\ result.r.msg = "Vyrazhenie ne mozhet byt' pustym"

\* C26: whenever a division by zero is met, with /, // or %, safe_calculator
\* fails with its own error, a ValueError that carries the division-by-zero
\* message, and no ZeroDivisionError ever leaves safe_calculator.
C26_DivisionByZeroIsDomainError ==
    pc = "evaluated" =>
        /\ ~result.r.ok => result.r.exc = "ValueError"
        /\ task.expected.k = "div0"
               => result.r = Raise("ValueError", "Delenie na nol'")
        /\ result.raised.exc = "ZeroDivisionError"
               => result.r = Raise("ValueError", "Delenie na nol'")

\* a remainder by zero inside a sum has been evaluated
C26_Witness ==
    /\ pc = "evaluated"
    /\ task.expression = "1 + 2 % 0"
    /\ task.expected.k = "div0"
    /\ result.raised.exc = "ZeroDivisionError"
    /\ result.r.msg = "Delenie na nol'"

\* the failure kind a caller reads off the message of safe_calculator's error
MessageKind(msg) ==
    IF LitAt(msg, 1, "Sintaksicheskaya oshibka v vyrazhenii '") THEN "syntax"
    ELSE IF msg = "Delenie na nol'" THEN "zero"
    ELSE IF LitAt(msg, 1, "Oshibka vychisleniya '")
            /\ (Contains(msg, "': Neizvestnaya konstanta: ")
                \/ Contains(msg, "': Neizvestnaya funkciya: "))
    THEN "unknown"
    ELSE "other"

\* the failure kind of the exception that left the try block
RaisedKind(raised) ==
    IF raised.exc = "SyntaxError" THEN "syntax"
    ELSE IF raised.exc = "ZeroDivisionError" THEN "zero"
    ELSE IF raised.exc = "ValueError"
            /\ (LitAt(raised.msg, 1, "Neizvestnaya konstanta: ")
                \/ LitAt(raised.msg, 1, "Neizvestnaya funkciya: "))
    THEN "unknown"
    ELSE "other"

\* C27: a syntax error, an unknown identifier or function, and a division by
\* zero give three errors of safe_calculator that their messages tell apart,
\* and each of them leaves calculator_tool.execute as an error text, never as
\* an exception.
C27_FailureKindsDistinct ==
    /\ (pc = "evaluated" /\ ~result.r.ok /\ RaisedKind(result.raised) # "other")
           => MessageKind(result.r.msg) = RaisedKind(result.raised)
    /\ (pc = "executed" /\ ~calc_safe_calculator(task.expression).r.ok)
           => /\ ~result.raised
              /\ result.failed
              /\ result.text
                     = "Oshibka: " \o calc_safe_calculator(task.expression).r.msg

\* the tool has turned the error of an unknown function into a text
C27_Witness ==
    /\ pc = "executed"
    /\ task.expression = "f(1)"
    /\ result.failed
    /\ ~result.raised
    /\ MessageKind(SubSeq(result.text, 10, Len(result.text))) = "unknown"

\* the syntax tree has a node the evaluator has no case for, a call with
\* keyword arguments, or a call whose callee is no key of FUNCTIONS
RECURSIVE Unsupported(_)
Unsupported(node) ==
    IF node.type \in {"Num", "Constant", "Name"} THEN FALSE
    ELSE IF node.type = "BinOp"
    THEN Unsupported(node.left) \/ Unsupported(node.right)
    ELSE IF node.type = "UnaryOp" THEN Unsupported(node.operand)
    ELSE IF node.type = "Call"
    THEN \/ node.func.type # "Name"
         \/ node.func.id \notin FunctionNames
         \/ node.keywords > 0
         \/ \E i \in 1..Len(node.args) : Unsupported(node.args[i])
    ELSE TRUE

\* the syntax tree of an expression holds something the evaluator must reject
MustReject(tree) == tree.ok /\ Unsupported(tree.node)

\* C28: every callable safe_calculator invokes is a value of OPERATORS or of
\* FUNCTIONS, and an expression that holds a call whose callee is no plain
\* whitelisted name, or a node of a type the evaluator does not support, is
\* rejected with an error.
C28_ClosedInterpreter ==
    pc = "evaluated" =>
        /\ \A i \in 1..Len(result.calls) :
               result.calls[i] \in OPERATORS \cup FunctionNames
        /\ MustReject(AstParse(StripSpace(task.expression))) => ~result.r.ok

\* C29: for an expression written out from a syntax tree of integer literals
\* with + - * // % ** and unary - and +, without a zero divisor,
\* safe_calculator returns the float of the value reference integer
\* arithmetic gives, and so for the assertions of test_calculator.
C29_IntegerArithmetic ==
    (pc = "evaluated" /\ task.expected.k = "int")
        => result.r = Ok(MkFloat(task.expected.n, 1))

\* a floor division of a negative number has been evaluated
C29_Witness ==
    /\ pc = "evaluated"
    /\ task.expression = "-3 // 2"
    /\ task.expected = RefInt(-2)
    /\ result.r = Ok(MkFloat(-2, 1))

-----------------------------------------------------------------------------
(* The capability listing: ToolKit.describe                                *)

\* the register calls that are the first, and the latest, for their name
FirstRegistrations ==
    {i \in 1..Len(registrations) :
        \A j \in 1..(i - 1) : registrations[j].name # registrations[i].name}

LatestRegistrations ==
    {i \in 1..Len(registrations) :
        \A j \in (i + 1)..Len(registrations) :
            registrations[j].name # registrations[i].name}

\* the members of a set of indices, in increasing order
InOrder(S) ==
    [k \in 1..Cardinality(S) |->
        CHOOSE i \in S : Cardinality({j \in S : j < i}) = k - 1]

\* the line of the listing for one Tool object
ListingLine(t) ==
    "* " \o t.name \o "(" \o Join(QuoteEach(t.parameters), ", ") \o "): "
    \o t.description

\* the listing with one line for each name registered, the names taken in
\* the order of the register calls at the given indices
Listing(order) ==
    Join([k \in 1..Len(order) |->
            ListingLine(LastRegistration(registrations[order[k]].name))],
         "\n")

\* C31 as stated: describe() gives one line per registered tool, and a name
\* registered again takes the place of its latest registration in the
\* listing.
C31_ListingFollowsLatestRegistration ==
    pc = "described" => result.text = Listing(InOrder(LatestRegistrations))

\* C31 amended: describe() gives exactly one line per registered name, each
\* rendering the Tool object of the latest registration for the name, and the
\* lines are in the order in which the names were registered first: a name
\* registered again keeps its place.
C31_ListingFollowsFirstRegistration ==
    pc = "described" => result.text = Listing(InOrder(FirstRegistrations))

\* a listing has been rendered after a name was registered, then another
\* name, then the first name once more with a different Tool object
C31_Witness ==
    /\ pc = "described"
    /\ Len(registrations) = 3
    /\ registrations[1].name = registrations[3].name
    /\ registrations[1] # registrations[3]
    /\ registrations[2].name # registrations[1].name
    /\ Len(tools) = 2

-----------------------------------------------------------------------------
(* The function-calling loop: SimpleAgent.run                              *)

\* C32: a run of SimpleAgent.run invokes tool handlers at most max_tool_calls
\* times, whatever the model responds, responses with several tool calls
\* included.
C32_ToolInvocationsBounded ==
    agent = "simple" => Len(handler_calls) <= max_tool_calls

\* the responses of the run that carry tool calls
WithToolCalls(rs) == {i \in 1..Len(rs) : rs[i].tool_calls # <<>>}

\* C33: whatever the model responds, SimpleAgent.run ends after at most
\* max_tool_calls model calls and returns: the content of the first response
\* without tool calls, or the limit text once max_tool_calls responses with
\* tool calls have been processed, with no model call after the last tool
\* results.  (A run whose model call itself failed, or that was interrupted,
\* is not one of the claim's cases.)
C33_SimpleRunTerminates ==
    (agent = "simple" /\ pc \in {"loop", "returned", "raised"}
        /\ error \notin ModelCallErrors \cup Interrupts) =>
        /\ llm_calls = Len(responses)
        /\ llm_calls <= max_tool_calls
        /\ pc # "raised"
        /\ pc = "loop" =>
                /\ WithToolCalls(responses) = 1..Len(responses)
                /\ Len(responses) < max_tool_calls
        /\ pc = "returned" =>
                \/ /\ responses # <<>>
                   /\ WithToolCalls(responses) = 1..(Len(responses) - 1)
                   /\ result = responses[Len(responses)].content
                \/ /\ WithToolCalls(responses) = 1..Len(responses)
                   /\ Len(responses) = max_tool_calls
                   /\ result = LimitText
                   /\ Len(messages) >= 2 + 2 * max_tool_calls

\* the role of a message of the transcript and, for a tool message, the id
\* of the tool call it answers
RoleAndId(m) ==
    [role |-> m.role, id |-> IF m.role = "tool" THEN m.tool_call_id ELSE ""]

\* the roles and ids the claim gives the messages appended for the
\* responses rs: for each response with tool calls the assistant message,
\* then one tool message per tool call, in the order of the calls
RECURSIVE AppendedFor(_)
AppendedFor(rs) ==
    IF rs = <<>> THEN <<>>
    ELSE IF rs[1].tool_calls = <<>> THEN AppendedFor(Tail(rs))
    ELSE <<[role |-> "assistant", id |-> ""]>>
         \o [k \in 1..Len(rs[1].tool_calls) |->
                [role |-> "tool", id |-> rs[1].tool_calls[k].id]]
         \o AppendedFor(Tail(rs))

\* C34: in SimpleAgent.run every model response with tool calls is followed
\* in the transcript by its assistant message and then exactly one tool
\* message per tool call, in the order of the calls and with the id of its
\* call; no tool call stays without a result message and no result message
\* comes before its assistant message.
C34_ToolResultsFollowCalls ==
    (agent = "simple" /\ pc \in {"loop", "returned", "raised"}) =>
        /\ Len(messages) >= 2
        /\ [i \in 1..(Len(messages) - 2) |-> RoleAndId(messages[i + 2])]
                = AppendedFor(responses)
        /\ SelectSeq(messages, LAMBDA m : m.role = "assistant")
                = SelectSeq(responses, LAMBDA r : r.tool_calls # <<>>)

-----------------------------------------------------------------------------
(* The transcript and the actions log of ReActAgent.run and                *)
(* ResearchAgent.research                                                  *)

\* the step is an iteration that ends the run from inside the loop: it
\* returns the answer, or an exception leaves it
EndsRun == pc' = "raised" \/ (pc' = "returned" /\ result'.success)

\* C35: when the model call of iteration k is issued the transcript holds
\* exactly 2 + 2 * (k - 1) messages: every iteration after which the run goes on
\* has appended exactly two messages to it, and the iteration that ends the
\* run appends none.
C35_TranscriptLength ==
    /\ []((agent \in TextAgents /\ pc = "loop") =>
            /\ llm_calls = iteration
            /\ Len(messages) = 2 + 2 * iteration)
    /\ [][(agent \in TextAgents /\ pc = "loop") =>
            /\ iteration' = iteration + 1
            /\ IF EndsRun THEN messages' = messages
               ELSE /\ Len(messages') = Len(messages) + 2
                    /\ SubSeq(messages', 1, Len(messages)) = messages]_vars

\* a run has answered in its second iteration, after one iteration that
\* went on: the transcript the second model call was given holds 4 messages
C35_Witness ==
    /\ agent \in TextAgents
    /\ pc = "returned"
    /\ result.success
    /\ iteration = 2
    /\ Len(messages) = 4

\* the argument a record of the actions log holds
RecordArg(rec) == IF agent = "react" THEN rec.arg ELSE rec.query

\* where a pass of the loop leaves the run, as the code decides it from the
\* response, the number k of the pass and whether an exception left it
AfterPass(response, k, raised) ==
    IF Truthy(extract_answer(response)) THEN "returned"
    ELSE IF raised THEN "raised"
    ELSE IF k = max_iterations THEN "returned"
    ELSE "loop"

\* C36: the actions log is the ordered record of the dispatches: each record
\* holds the iteration, the tool and the argument of its dispatch, the
\* iterations are strictly increasing and lie in 1..max_iterations, the
\* dispatch of an unregistered name is recorded like any other (with the
\* not-found text as result), and the log is what the run returns; how a
\* pass of the loop classifies the response and whether the run ends are
\* decided by the response, the number of the pass and max_iterations alone,
\* never by the log.
C36_ActionsLogRecordsDispatches ==
    /\ [](agent \in TextAgents =>
            /\ Len(actions_log) <= Len(dispatches)
            /\ pc \in {"loop", "returned"} => Len(actions_log) = Len(dispatches)
            /\ \A a \in 1..Len(actions_log) :
                    /\ actions_log[a].iteration = dispatches[a].iteration
                    /\ actions_log[a].tool = dispatches[a].tool
                    /\ RecordArg(actions_log[a]) = dispatches[a].arg
                    /\ actions_log[a].iteration \in 1..max_iterations
                    /\ a > 1 => actions_log[a - 1].iteration
                                    < actions_log[a].iteration
            /\ \A d \in 1..Len(dispatches) :
                    ~Registered(tools, dispatches[d].tool) =>
                        /\ d <= Len(actions_log)
                        /\ actions_log[d].result =
                               Truncate(ToolKit_execute(agent, tools,
                                            dispatches[d].tool,
                                            dispatches[d].arg, "page").text,
                                        LogLimit)
            /\ pc = "returned" => result.actions = actions_log)
    /\ [][(agent \in TextAgents /\ pc = "loop") =>
            IF responses' = responses THEN pc' = "raised"
            ELSE LET response == responses'[Len(responses')]
                     dispatched == /\ ~Truthy(extract_answer(response))
                                   /\ ~parse_action(response).none
                 IN  /\ pc' = AfterPass(response, iteration + 1, error' # "")
                     /\ Len(dispatches') =
                            Len(dispatches) + (IF dispatched THEN 1 ELSE 0)]_vars

\* a run has returned a log of two records, of the first and the second
\* iteration, one of them the dispatch of a name that is not registered
C36_Witness ==
    /\ agent \in TextAgents
    /\ pc = "returned"
    /\ Len(result.actions) = 2
    /\ result.actions[1].iteration = 1
    /\ result.actions[2].iteration = 2
    /\ \E a \in 1..2 : ~Registered(tools, result.actions[a].tool)

-----------------------------------------------------------------------------
(* The calculator of the agents against the calculator of the tools        *)
(* package                                                                 *)

\* two outcomes of a calculator agree: the same number, or a failure both
SameOutcome(a, b) == a.ok = b.ok /\ (a.ok => a.val = b.val)

\* C37: the safe_calculator the ReAct, the research and the simple agent
\* register gives for every expression the outcome safe_calculator of
\* tools/calculator.py gives: the same number, or a failure both.
C37_AgentCalculatorEquivalent ==
    pc = "evaluated" => SameOutcome(safe_calculator(task.expression), result.r)

-----------------------------------------------------------------------------
(* The literals of the calculator                                          *)

\* the expression holds a string literal, True, False or None
NonNumericLiteral(ts) ==
    \E k \in 1..Len(ts) :
        ts[k].t = "str" \/ (ts[k].t = "name" /\ ts[k].id \in LiteralNames)

\* C38: safe_calculator of tools/calculator.py fails for every expression
\* that holds a string, boolean or None literal; it gives no number for one.
C38_LiteralsAreNumbers ==
    (pc = "evaluated" /\ NonNumericLiteral(ExprTokens(task.expression)))
        => ~result.r.ok

-----------------------------------------------------------------------------
(* Actions with an empty argument list                                     *)

\* at index i of s stands ACTION:, then a tool name and an open parenthesis
\* that a close parenthesis follows somewhere
ActionCallAt(s, i) ==
    /\ LitAt(s, i, "ACTION:")
    /\ LET n == SkipSpaces(s, i + 7)
           o == SkipSpaces(s, SkipWord(s, n))
       IN  /\ SkipWord(s, n) > n
           /\ o <= Len(s)
           /\ At(s, o) = "("
           /\ \E c \in (o + 1)..Len(s) : At(s, c) = ")"

\* C39: _parse_action returns an action for every response that holds ACTION:
\* followed by a tool name and a parenthesised argument list, the empty list
\* () included; it never returns None for one.
C39_ActionCallAlwaysParsed ==
    (pc = "parsed"
        /\ \E i \in 1..Len(responses[1]) : ActionCallAt(responses[1], i))
        => ~result.action.none

-----------------------------------------------------------------------------
(* wikipedia_search of tools/search.py and of research_agent.py, one step  *)
(* per requests.get                                                        *)

\* the frames the interpreter allows before it raises RecursionError
\* (sys.getrecursionlimit(), counted here in calls of the search functions)
RecursionLimit == 4

\* the queries a caller passes and the titles the search API answers with
SearchQueries == {"Piton", "Python (yazyk)"}

\* the values of the parameter sentences the callers pass
SentencesInputs == {0, 3}

\* the extracts a summary page carries
ExtractSamples == {"", "A. B. C. D", "A."}

\* what the server, or the network, does with the request of a page summary
SummaryReplies ==
    [status : {200}, title : {"Python"}, extract : ExtractSamples]
        \cup [status : {404, 500}]
        \cup [raises : {"Timeout", "ConnectionError", "Exception"}]

\* what the server, or the network, does with the request of a search
SearchReplies ==
    [status : {200, 500}, search : {<<>>} \cup {<<q>> : q \in SearchQueries}]
        \cup [raises : {"Timeout", "ConnectionError", "Exception"}]

\* the reply is a response, none of the exceptions of requests.get
Responded(reply) == "status" \in DOMAIN reply

\* str(n) of a natural number
RECURSIVE Decimal(_)
Decimal(n) ==
    LET d == n % 10
        c == CASE d = 0 -> "0" [] d = 1 -> "1" [] d = 2 -> "2" [] d = 3 -> "3"
               [] d = 4 -> "4" [] d = 5 -> "5" [] d = 6 -> "6" [] d = 7 -> "7"
               [] d = 8 -> "8" [] OTHER -> "9"
    IN  IF n < 10 THEN c ELSE Decimal(n \div 10) \o c

\* sentences = max(1, min(10, sentences))
ClampSentences(sentences) ==
    IF sentences < 1 THEN 1 ELSE IF sentences > 10 THEN 10 ELSE sentences

\* the length of '. '.join(extract.split('. ')[:n]), scanning from index i
RECURSIVE SentencesEnd(_, _, _)
SentencesEnd(extract, i, n) ==
    IF i > Len(extract) THEN Len(extract)
    ELSE IF LitAt(extract, i, ". ")
         THEN IF n = 1 THEN i - 1 ELSE SentencesEnd(extract, i + 2, n - 1)
    ELSE SentencesEnd(extract, i + 1, n)

\* what wikipedia_search of tools/search.py returns for a page found
PageSummary(query, reply, sentences) ==
    LET cut == SubSeq(reply.extract, 1,
                      SentencesEnd(reply.extract, 1, sentences))
        text == IF cut # "" /\ At(cut, Len(cut)) = "." THEN cut
                ELSE cut \o "."
    IN  IF reply.extract = ""
        THEN "Stat'ya '" \o query \o "' ne soderzhit opisaniya."
        ELSE "[" \o reply.title \o "] " \o text

\* the message of the except clause of wikipedia_search that catches exc
SearchFailure(exc) ==
    IF exc = "Timeout" THEN "Oshibka: prevysheno vremya ozhidaniya Wikipedia"
    ELSE IF exc = "ConnectionError" THEN "Oshibka seti: <" \o exc \o ">"
    ELSE "Oshibka poiska v Wikipedia: <" \o exc \o ">"

\* a frame of a search function: its module, its name, its arguments and
\* the requests.get it stands at
SearchFrame(module, func, query, sentences, at) ==
    [module |-> module, func |-> func, query |-> query,
     sentences |-> sentences, at |-> at]

\* the string s leaves the innermost frame; every caller returns what its
\* callee returned, so s leaves the top-level call
ReturnText(s) ==
    /\ call_stack' = <<>>
    /\ result' = s
    /\ pc' = "returned"

\* the innermost frame calls func(query); the call is inside the frame's
\* try block, and failure is what its except clause returns for the
\* RecursionError of a call beyond the recursion limit
CallSearch(func, query, failure) ==
    LET top == call_stack[Len(call_stack)]
    IN  IF Len(call_stack) >= RecursionLimit
        THEN ReturnText(failure)
        ELSE /\ call_stack' =
                    Append(call_stack,
                           SearchFrame(top.module, func, query,
                                       top.sentences,
                                       IF func = "_wikipedia_search_fallback"
                                       THEN "search" ELSE "summary"))
             /\ UNCHANGED <<result, pc>>

SearchFrameVars ==
    UNCHANGED <<agent, tools, max_iterations, iteration, messages,
                actions_log, research_log, error, llm_calls, responses,
                dispatches, handler_calls, max_tool_calls, tool_calls_count,
                runs, threads, registrations>>

SearchInit ==
    /\ agent = "research"
    /\ tools = <<>>
    /\ registrations = <<>>
    /\ pc = "idle"
    /\ task = ""
    /\ result = NoResult
    /\ dispatches = <<>>
    /\ handler_calls = <<>>
    /\ max_iterations = 0
    /\ iteration = 0
    /\ messages = <<>>
    /\ actions_log = <<>>
    /\ research_log = EmptyLog
    /\ error = ""
    /\ llm_calls = 0
    /\ responses = <<>>
    /\ max_tool_calls = 0
    /\ tool_calls_count = 0
    /\ runs = 0
    /\ threads = <<>>
    /\ http_requests = <<>>
    /\ call_stack = <<>>

\* wikipedia_search(query, "ru", sentences) of tools/search.py, or
\* wikipedia_search(query) of research_agent.py, up to its first request
WikipediaSearch(module, query, sentences) ==
    /\ pc = "idle"
    /\ task' = query
    /\ pc' = "request"
    /\ call_stack' = <<SearchFrame(module, "wikipedia_search", query,
                                   ClampSentences(sentences), "summary")>>
    /\ UNCHANGED <<result, http_requests>>
    /\ SearchFrameVars

\* requests.get(url) of wikipedia_search gets reply, and the function runs
\* up to its next request or to its return
SummaryResponds(reply) ==
    /\ pc = "request"
    /\ LET top == call_stack[Len(call_stack)]
       IN  /\ top.at = "summary"
           /\ http_requests' =
                  Append(http_requests, [url |-> "summary", query |-> top.query])
           /\ IF top.module = "tools/search.py" THEN
                  IF ~Responded(reply)
                  THEN ReturnText(SearchFailure(reply.raises))
                  ELSE IF reply.status = 404
                  THEN CallSearch("_wikipedia_search_fallback", top.query,
                                  SearchFailure("RecursionError"))
                  ELSE IF reply.status # 200
                  THEN ReturnText("Oshibka Wikipedia API: "
                                  \o Decimal(reply.status))
                  ELSE ReturnText(PageSummary(top.query, reply, top.sentences))
              ELSE
                  IF ~Responded(reply)
                  THEN ReturnText("Oshibka: <" \o reply.raises \o ">")
                  ELSE IF reply.status = 200
                  THEN ReturnText("[" \o reply.title \o "]\n"
                                  \o Truncate(reply.extract,
                                              ResearchExtractLimit))
                  ELSE /\ call_stack' =
                              [call_stack EXCEPT ![Len(call_stack)].at = "search"]
                       /\ UNCHANGED <<result, pc>>
    /\ UNCHANGED task
    /\ SearchFrameVars

\* requests.get(search_url) of _wikipedia_search_fallback, or of the fallback
\* part of research_agent.py's wikipedia_search, gets reply, and the function
\* runs up to its next request or to its return
SearchResponds(reply) ==
    /\ pc = "request"
    /\ LET top == call_stack[Len(call_stack)]
       IN  /\ top.at = "search"
           /\ http_requests' =
                  Append(http_requests, [url |-> "search", query |-> top.query])
           /\ IF top.module = "tools/search.py" THEN
                  IF ~Responded(reply)
                  THEN ReturnText("Oshibka poiska: <" \o reply.raises \o ">")
                  ELSE IF reply.search = <<>>
                  THEN ReturnText("Nichego ne najdeno po zaprosu: "
                                  \o top.query)
                  ELSE CallSearch("wikipedia_search", reply.search[1],
                                  "Oshibka poiska: <RecursionError>")
              ELSE
                  IF ~Responded(reply)
                  THEN ReturnText("Oshibka: <" \o reply.raises \o ">")
                  ELSE IF reply.status = 200 /\ reply.search # <<>>
                  THEN CallSearch("wikipedia_search", reply.search[1],
                                  "Oshibka: <RecursionError>")
                  ELSE ReturnText("Ne najdeno: " \o top.query)
    /\ UNCHANGED task
    /\ SearchFrameVars

SearchNext ==
    \/ \E module \in {"tools/search.py", "research_agent.py"},
          query \in SearchQueries, sentences \in SentencesInputs :
            WikipediaSearch(module, query, sentences)
    \/ \E reply \in SummaryReplies : SummaryResponds(reply)
    \/ \E reply \in SearchReplies : SearchResponds(reply)

SearchSpec == SearchInit /\ [][SearchNext]_vars

\* the requests of the call that went to the search API
FallbackRequests ==
    {i \in 1..Len(http_requests) : http_requests[i].url = "search"}

\* C40: a top-level call of wikipedia_search enters the not-found fallback
\* search at most once, also when the page of the first search hit is not
\* found either: it issues one search request at most and three requests in
\* all, and what it returns is a string.
C40_FallbackEnteredOnce ==
    /\ pc \in {"request", "returned"} =>
            /\ Cardinality(FallbackRequests) <= 1
            /\ Len(http_requests) <= 3
    /\ pc = "returned" => result \in STRING

====
